---------------------------- MODULE Spec2Model ----------------------------
(***************************************************************************)
(* A model of the mockdeu interview core: the session controller          *)
(* (logic/session.py), the topic tracker and reply parser                 *)
(* (logic/interview.py) and the scorer and escalation tracker             *)
(* (logic/analysis.py).                                                    *)
(*                                                                         *)
(* Texts are TLA+ strings handled character by character (Len, SubSeq and *)
(* \o work on strings in TLC), so lower-casing, splitting, substring      *)
(* search and line parsing are computed the way the Python code computes  *)
(* them.  A character of a text is one of the 256 characters of Latin-1   *)
(* (U+0000 to U+00FF), the alphabet of TLC's strings (this module is      *)
(* UTF-8 text); the character classes below are Python's, restricted to   *)
(* that alphabet.  The scorer's floats are computed as IEEE 754 binary64  *)
(* values; weight literals are written in tenths, answer quality in       *)
(* quarters.                                                               *)
(***************************************************************************)
EXTENDS Integers, Sequences, FiniteSets, TLC

VARIABLES
    pc,          \* position of InterviewSession.run: the call it waits in
    frame,       \* the call of _speak_and_log in flight: its text and the line
                 \* it was called from (None outside such a call)
    turn,        \* the loop variable of "for turn in range(max_turns)"
    decision,    \* the local variable decision of run (None or <<type, reason>>)
    history,     \* InterviewSession.history
    transcript,  \* InterviewSession.transcript
    istate,      \* InterviewSession.istate  (InterviewState)
    scorer,      \* InterviewSession.scorer  (VisaScorer)
    ap_tracker,  \* InterviewSession.ap_tracker (AdministrativeProcessingTracker)
    data,        \* the DS-160 record loaded by DS160Manager.load
    io,          \* the awaited calls that have returned, in order
    report,      \* what _save_results hands to save_outputs (None before)
    input,       \* the arguments of the call under study (function-level specifications)
    probe        \* the last call made and what it returned (function-level specifications)

vars == <<pc, frame, turn, decision, history, transcript, istate, scorer, ap_tracker,
          data, io, report, input, probe>>

None == "<None>"   \* Python's None; no text of the model equals this marker

-----------------------------------------------------------------------------
(* Python str and re primitives, character by character.                   *)

LowerChars == "abcdefghijklmnopqrstuvwxyz"   \* a-z of a regular expression
UpperChars == "ABCDEFGHIJKLMNOPQRSTUVWXYZ"
DigitChars == "0123456789"                   \* 0-9 of a regular expression

\* the capital letters of Latin-1 beyond A-Z (U+00C0 to U+00DE without the
\* multiplication sign U+00D7) and, in the same order, their small letters
\* (U+00E0 to U+00FE without the division sign U+00F7)
UpperLatin == "ÀÁÂÃÄÅÆÇÈÉÊËÌÍÎÏÐÑÒÓÔÕÖØÙÚÛÜÝÞ"
LowerLatin == "àáâãäåæçèéêëìíîïðñòóôõöøùúûüýþ"

Ch(s, i) == SubSeq(s, i, i)
Rest(s) == SubSeq(s, 2, Len(s))
InStr(c, chars) == \E i \in 1..Len(chars) : Ch(chars, i) = c

\* the white space of str.split, str.strip and of \s in a regular expression
\* (str.isspace): U+0009 to U+000D, U+001C to U+001F, the space, U+0085 (next
\* line) and U+00A0 (no-break space)
IsSpace(c) ==
    c \in {" ", "\t", "\n", "\r", "\f", "", "", "", "", "", "", " "}

\* str.isdigit: 0-9 and the superscripts U+00B2, U+00B3 and U+00B9
IsDigit(c) == InStr(c, DigitChars) \/ c \in {"²", "³", "¹"}

\* c.lower() of one character: A-Z and the capitals of UpperLatin have a
\* small letter, every other character of Latin-1 is its own lower case
LowerCh(c) ==
    IF InStr(c, UpperChars)
    THEN Ch(LowerChars, CHOOSE i \in 1..26 : Ch(UpperChars, i) = c)
    ELSE IF InStr(c, UpperLatin)
    THEN Ch(LowerLatin, CHOOSE i \in 1..Len(UpperLatin) : Ch(UpperLatin, i) = c)
    ELSE c

\* c.upper() of one character: a-z and the small letters of LowerLatin have a
\* capital, the sharp s U+00DF becomes "SS".  The capitals of the micro sign
\* U+00B5 and of U+00FF (y with diaeresis) are U+039C and U+0178, which are
\* no characters of the model's alphabet: the two are left as they are, which
\* like their capitals are no character of A-Z, 0-9 or punctuation
UpperCh(c) ==
    IF InStr(c, LowerChars)
    THEN Ch(UpperChars, CHOOSE i \in 1..26 : Ch(LowerChars, i) = c)
    ELSE IF InStr(c, LowerLatin)
    THEN Ch(UpperLatin, CHOOSE i \in 1..Len(LowerLatin) : Ch(LowerLatin, i) = c)
    ELSE IF c = "ß" THEN "SS"
    ELSE c

\* str.lower and str.upper, by halves (the texts are too long for a
\* character-by-character recursion)
RECURSIVE Lower(_)
Lower(s) ==
    IF Len(s) <= 1 THEN LowerCh(s)
    ELSE Lower(SubSeq(s, 1, Len(s) \div 2)) \o Lower(SubSeq(s, Len(s) \div 2 + 1, Len(s)))

RECURSIVE Upper(_)
Upper(s) ==
    IF Len(s) <= 1 THEN UpperCh(s)
    ELSE Upper(SubSeq(s, 1, Len(s) \div 2)) \o Upper(SubSeq(s, Len(s) \div 2 + 1, Len(s)))

\* k in t
Contains(t, k) ==
    \E i \in 1..(Len(t) - Len(k) + 1) : SubSeq(t, i, i + Len(k) - 1) = k

\* any(k in t for k in ks), ks a sequence of texts
AnyIn(ks, t) == \E j \in 1..Len(ks) : Contains(t, ks[j])

StartsWith(t, p) == Len(t) >= Len(p) /\ SubSeq(t, 1, Len(p)) = p

\* t.upper().startswith(p) for a prefix p made of A-Z and ":" (lines 203-217
\* of logic/interview.py): exact for every text t, since a character that
\* UpperCh leaves without its capital has a capital that is no character of p
UpperStartsWith(t, p) == StartsWith(Upper(t), p)

SetMin(S) == CHOOSE x \in S : \A y \in S : x <= y
SetMax(S) == CHOOSE x \in S : \A y \in S : x >= y

\* str.strip()
Strip(s) ==
    LET keep == {i \in 1..Len(s) : ~IsSpace(Ch(s, i))}
    IN  IF keep = {} THEN "" ELSE SubSeq(s, SetMin(keep), SetMax(keep))

\* the positions where a maximal run of characters satisfying In(_) starts / ends
RunStarts(s, In(_)) ==
    {i \in 1..Len(s) : In(Ch(s, i)) /\ (i = 1 \/ ~In(Ch(s, i - 1)))}
RunEnds(s, In(_)) ==
    {i \in 1..Len(s) : In(Ch(s, i)) /\ (i = Len(s) \/ ~In(Ch(s, i + 1)))}

\* the maximal runs of characters satisfying In(_), in order
Runs(s, In(_)) ==
    LET starts == RunStarts(s, In)
        ends == RunEnds(s, In)
        nth(k) == CHOOSE i \in starts : Cardinality({j \in starts : j < i}) = k - 1
    IN  [k \in 1..Cardinality(starts) |->
            SubSeq(s, nth(k), SetMin({e \in ends : e >= nth(k)}))]

NotSpace(c) == ~IsSpace(c)

\* str.split(): the maximal runs of non-space characters, in order
Split(s) == Runs(s, NotSpace)

\* sep.join(ws), by halves
RECURSIVE Join(_, _)
Join(sep, ws) ==
    IF ws = <<>> THEN ""
    ELSE IF Len(ws) = 1 THEN ws[1]
    ELSE Join(sep, SubSeq(ws, 1, Len(ws) \div 2)) \o sep
             \o Join(sep, SubSeq(ws, Len(ws) \div 2 + 1, Len(ws)))

Range(f) == {f[i] : i \in DOMAIN f}

\* a character of the class [a-z0-9\s]
IsNormChar(c) == InStr(c, LowerChars) \/ InStr(c, DigitChars) \/ IsSpace(c)

\* re.sub(r"[^a-z0-9\s]", " ", s), by halves
RECURSIVE SubNonAlnum(_)
SubNonAlnum(s) ==
    IF s = "" THEN ""
    ELSE IF Len(s) = 1 THEN (IF IsNormChar(s) THEN s ELSE " ")
    ELSE SubNonAlnum(SubSeq(s, 1, Len(s) \div 2))
             \o SubNonAlnum(SubSeq(s, Len(s) \div 2 + 1, Len(s)))

-----------------------------------------------------------------------------
(* InterviewState (logic/interview.py).                                    *)

QuestionsMaxLen == 25   \* deque(maxlen=25)

InterviewStateInit ==
    [turn |-> 0, asked_categories |-> <<>>, category_set |-> {},
     questions_history |-> <<>>, darwin_check_used |-> FALSE]

\* a plausible slip: the white space is collapsed before the punctuation is replaced
NormCollapseFirst(s) == SubNonAlnum(Join(" ", Split(Lower(s))))

_norm(s) == Join(" ", Split(SubNonAlnum(Lower(s))))

\* a plausible slip: a full buffer refuses the new entry
DequeAppendKeepOld(d, x) ==
    IF Len(d) >= QuestionsMaxLen THEN d ELSE d \o <<x>>

\* deque.append on a deque of bounded length: the oldest entry is dropped
DequeAppend(d, x) ==
    IF Len(d) >= QuestionsMaxLen THEN Tail(d) \o <<x>> ELSE d \o <<x>>

\* a plausible slip: the question is stored as asked, not normalized
RecordAsAsked(st, q, cat_hint) ==
    LET st1 == IF q # ""
               THEN [st EXCEPT !.questions_history = DequeAppend(@, q)]
               ELSE st
    IN  IF cat_hint # None /\ cat_hint # ""
        THEN [st1 EXCEPT !.asked_categories = Append(@, cat_hint),
                         !.category_set = @ \cup {cat_hint}]
        ELSE st1

record(st, q, cat_hint) ==
    LET st1 == IF q # ""
               THEN [st EXCEPT !.questions_history = DequeAppend(@, _norm(q))]
               ELSE st
    IN  IF cat_hint # None /\ cat_hint # ""
        THEN [st1 EXCEPT !.asked_categories = Append(@, cat_hint),
                         !.category_set = @ \cup {cat_hint}]
        ELSE st1

\* _jaccard as the exact fraction <<numerator, denominator>>; 0.0 is <<0, 1>>
_jaccard(a, b) ==
    LET sa == Range(Split(a))
        sb == Range(Split(b))
    IN  IF sa = {} \/ sb = {} THEN <<0, 1>>
        ELSE <<Cardinality(sa \cap sb), Cardinality(sa \cup sb)>>

\* a plausible slip: the candidate is compared without being normalized
TooSimilarRaw(st, new_q, threshold10) ==
    \E i \in 1..Len(st.questions_history) :
        LET j == _jaccard(st.questions_history[i], new_q)
        IN  j[1] * 10 >= threshold10 * j[2]

\* too_similar; the threshold is given in tenths (0.8 is 8)
too_similar(st, new_q, threshold10) ==
    LET n == _norm(new_q)
    IN  \E i \in 1..Len(st.questions_history) :
            LET j == _jaccard(st.questions_history[i], n)
            IN  j[1] * 10 >= threshold10 * j[2]

-----------------------------------------------------------------------------
(* VisaScorer (logic/analysis.py).  points and max_possible are Python     *)
(* floats, kept bit for bit (see the float arithmetic below);              *)
(* response_quality is kept in quarters (len/4 is len, the int 4 is 16).   *)

\* the keys of self.evidence
EvidenceKeys == {"ties", "funds", "academics", "intent"}

\* self.weights.get(cat, 1.0), in tenths
Weight10(cat) ==
    CASE cat = "ties" -> 15
      [] cat = "funds" -> 12
      [] cat = "academics" -> 10
      [] cat = "intent" -> 13
      [] cat = "purpose" -> 14
      [] OTHER -> 10

\* kw.get(cat, [])
Keywords(cat) ==
    CASE cat = "ties" ->
            <<"family", "parents", "spouse", "children", "property", "house",
              "land", "job", "return", "home">>
      [] cat = "funds" ->
            <<"sponsor", "father", "mother", "bank", "loan", "savings", "salary",
              "tuition", "fees", "rs", "usd">>
      [] cat = "academics" ->
            <<"gpa", "grade", "research", "project", "course", "professor",
              "university", "computer science", "biology">>
      [] cat = "intent" ->
            <<"return", "temporary", "after graduation", "career", "plan", "goal",
              "role">>
      [] cat = "purpose" ->
            <<"tourism", "visit", "conference", "meeting", "business", "medical",
              "sightseeing", "grand canyon", "disney">>
      [] OTHER -> <<>>

EvasivePhrases == <<"don't know", "not sure", "maybe", "can't say">>
SponsorWords == <<"father", "mother", "parents", "self", "scholarship", "loan">>
UniversityWords == <<"wisconsin", "green bay", "uwgb", "university", "college">>
MajorWords == <<"computer science", "cs", "biology", "engineering", "business", "it">>
FraudFlag == "Possible misrepresentation language"

Max(a, b) == IF a >= b THEN a ELSE b
Min(a, b) == IF a <= b THEN a ELSE b

RECURSIVE SumSeq(_)
SumSeq(q) == IF q = <<>> THEN 0 ELSE q[1] + SumSeq(Tail(q))

-----------------------------------------------------------------------------
(* Python float arithmetic (IEEE 754 binary64, round to nearest, ties to   *)
(* even), as far as VisaScorer uses it.  A natural number is a sequence of *)
(* limbs of LimbBits bits, lowest first, without leading zero limbs.  A    *)
(* non-negative float x is the natural x * 2^FracBits; every float met     *)
(* here is a multiple of 2^-FracBits below 2^30.  A signed float is        *)
(* [neg, mag].                                                             *)

LimbBits == 15
LimbBase == 2 ^ LimbBits
FracLimbs == 5
FracBits == FracLimbs * LimbBits
MantissaBits == 53

Limb(a, i) == IF i >= 1 /\ i <= Len(a) THEN a[i] ELSE 0

BNorm(a) ==
    LET nz == {i \in 1..Len(a) : a[i] # 0}
    IN  IF nz = {} THEN <<>> ELSE SubSeq(a, 1, SetMax(nz))

RECURSIVE BAddFrom(_, _, _, _)
BAddFrom(a, b, i, carry) ==
    IF i > Len(a) /\ i > Len(b)
    THEN IF carry = 0 THEN <<>> ELSE <<carry>>
    ELSE <<(Limb(a, i) + Limb(b, i) + carry) % LimbBase>>
         \o BAddFrom(a, b, i + 1, (Limb(a, i) + Limb(b, i) + carry) \div LimbBase)

BAdd(a, b) == BAddFrom(a, b, 1, 0)

RECURSIVE BSubFrom(_, _, _, _)
BSubFrom(a, b, i, borrow) ==
    IF i > Len(a) THEN <<>>
    ELSE <<(a[i] - Limb(b, i) - borrow) % LimbBase>>
         \o BSubFrom(a, b, i + 1, IF a[i] - Limb(b, i) - borrow < 0 THEN 1 ELSE 0)

\* a - b, for a >= b
BSub(a, b) == BNorm(BSubFrom(a, b, 1, 0))

\* a <= b
BLeq(a, b) ==
    IF Len(a) # Len(b) THEN Len(a) < Len(b)
    ELSE LET d == {i \in 1..Len(a) : a[i] # b[i]}
         IN  d = {} \/ a[SetMax(d)] < b[SetMax(d)]

RECURSIVE BMulFrom(_, _, _, _)
BMulFrom(a, k, i, carry) ==
    IF i > Len(a) THEN IF carry = 0 THEN <<>> ELSE <<carry>>
    ELSE <<(a[i] * k + carry) % LimbBase>>
         \o BMulFrom(a, k, i + 1, (a[i] * k + carry) \div LimbBase)

\* a * k, for 0 <= k <= LimbBase
BMulSmall(a, k) == BNorm(BMulFrom(a, k, 1, 0))

\* a * LimbBase^n
ShiftLimbs(a, n) == IF a = <<>> THEN <<>> ELSE [i \in 1..n |-> 0] \o a

\* 2^s
Pow2(s) ==
    [i \in 1..(s \div LimbBits + 1) |->
        IF i = s \div LimbBits + 1 THEN 2 ^ (s % LimbBits) ELSE 0]

\* the number of bits of a
BitLen(a) ==
    IF a = <<>> THEN 0
    ELSE LimbBits * (Len(a) - 1)
         + (CHOOSE k \in 1..LimbBits : 2 ^ (k - 1) <= a[Len(a)] /\ a[Len(a)] < 2 ^ k)

\* bit i of a, bit 0 the lowest
Bit(a, i) == (Limb(a, i \div LimbBits + 1) \div 2 ^ (i % LimbBits)) % 2

\* a mod 2^s
LowBits(a, s) ==
    BNorm([i \in 1..Min(Len(a), s \div LimbBits + 1) |->
              IF i = s \div LimbBits + 1 THEN a[i] % 2 ^ (s % LimbBits) ELSE a[i]])

\* the float nearest to the exact value n (plus something below its last
\* bit when sticky): MantissaBits significant bits, ties to even
RoundBig(n, sticky) ==
    LET s == BitLen(n) - MantissaBits
    IN  IF s <= 0 THEN n
        ELSE LET up == /\ Bit(n, s - 1) = 1
                       /\ (sticky \/ LowBits(n, s - 1) # <<>> \/ Bit(n, s) = 1)
                 trunc == BSub(n, LowBits(n, s))
             IN  IF up THEN BAdd(trunc, Pow2(s)) ELSE trunc

\* one step of the long division by b, whose top limb is at least
\* LimbBase / 2: the next limb of the dividend is brought down to the
\* remainder st.r, and the quotient st.q gains the limb floor(r1 / b), which
\* is the estimate qhat from the top limbs or up to 2 less
DivStep(limb, st, b) ==
    LET r1 == BNorm(<<limb>> \o st.r)
        qhat == Min(LimbBase - 1,
                    (Limb(r1, Len(b) + 1) * LimbBase + Limb(r1, Len(b))) \div b[Len(b)])
        p == BMulSmall(b, qhat)
    IN  IF BLeq(p, r1) THEN [q |-> <<qhat>> \o st.q, r |-> BSub(r1, p)]
        ELSE IF BLeq(BSub(p, b), r1)
        THEN [q |-> <<qhat - 1>> \o st.q, r |-> BSub(r1, BSub(p, b))]
        ELSE [q |-> <<qhat - 2>> \o st.q, r |-> BSub(r1, BSub(BSub(p, b), b))]

\* long division of a by b, from the top limb of a downwards; st.q holds
\* one limb for each limb of a taken so far
RECURSIVE BDivFrom(_, _, _)
BDivFrom(a, b, st) ==
    IF Len(st.q) = Len(a) THEN [q |-> BNorm(st.q), r |-> st.r]
    ELSE BDivFrom(a, b, DivStep(a[Len(a) - Len(st.q)], st, b))

\* the number of zero limbs at the low end of a # <<>>
LowZeros(a) == SetMin({i \in 1..Len(a) : a[i] # 0}) - 1

\* q = floor(a / b) and r # <<>> iff b does not divide a, for b # <<>>.
\* The zero limbs that a and b share at the low end are dropped, a and b
\* are scaled so that b's top limb is at least LimbBase / 2, and the
\* division starts below the top Len(b) - 1 limbs of a, which are less than b.
BDiv(a, b) ==
    IF a = <<>> THEN [q |-> <<>>, r |-> <<>>]
    ELSE
      LET z == Min(LowZeros(a), LowZeros(b))
          f == 2 ^ (LimbBits - (BitLen(b) - LimbBits * (Len(b) - 1)))
          an == BMulSmall(SubSeq(a, z + 1, Len(a)), f)
          bn == BMulSmall(SubSeq(b, z + 1, Len(b)), f)
          k == Min(Len(an), Len(bn) - 1)
      IN  BDivFrom(an, bn, [q |-> [i \in 1..k |-> 0],
                            r |-> BNorm(SubSeq(an, Len(an) - k + 1, Len(an)))])

\* float(k) for an int 0 <= k < LimbBase
FromInt(k) == ShiftLimbs(BNorm(<<k>>), FracLimbs)

\* x / y for floats x >= 0, y > 0
FDiv(x, y) ==
    LET d == BDiv(ShiftLimbs(x, FracLimbs), y)
    IN  RoundBig(d.q, d.r # <<>>)

\* k * x for an int 0 <= k < LimbBase and a float x >= 0
FMulInt(k, x) == RoundBig(BMulSmall(x, k), FALSE)

\* x + y for floats x, y >= 0
FAddPos(x, y) == RoundBig(BAdd(x, y), FALSE)

Signed(neg, mag) == [neg |-> neg /\ mag # <<>>, mag |-> mag]

\* x + y for signed floats
FAdd(x, y) ==
    IF x.neg = y.neg THEN Signed(x.neg, RoundBig(BAdd(x.mag, y.mag), FALSE))
    ELSE IF BLeq(y.mag, x.mag) THEN Signed(x.neg, RoundBig(BSub(x.mag, y.mag), FALSE))
    ELSE Signed(y.neg, RoundBig(BSub(y.mag, x.mag), FALSE))

\* round(x) of a signed float x: the nearest int, halves to even
RoundFloat(x) ==
    LET whole == Limb(x.mag, FracLimbs + 1) + LimbBase * Limb(x.mag, FracLimbs + 2)
        up == /\ Bit(x.mag, FracBits - 1) = 1
              /\ (LowBits(x.mag, FracBits - 1) # <<>> \/ whole % 2 = 1)
        r == IF up THEN whole + 1 ELSE whole
    IN  IF x.neg THEN 0 - r ELSE r

\* round(10 * x) for a float x >= 0: x in tenths
Tenths(x) == RoundFloat(Signed(FALSE, BMulSmall(x, 10)))

\* self.weights.get(cat, 1.0): the float of the literal, e.g. 1.2 is 12 / 10
WeightTable == [w10 \in 10..15 |-> FDiv(FromInt(w10), FromInt(10))]
Weight(cat) == WeightTable[Weight10(cat)]

\* the products k * w of lines 179 and 180, computed once
WeightedTable == [w10 \in 10..15 |-> [k \in 0..3 |-> FMulInt(k, WeightTable[w10])]]
Weighted(k, cat) == WeightedTable[Weight10(cat)][k]

-----------------------------------------------------------------------------
\* VisaScorer.reset
reset ==
    [points |-> <<>>, max_possible |-> <<>>,
     evidence |-> [k \in EvidenceKeys |-> <<>>],
     categories_scored |-> {},
     response_quality |-> <<>>,
     evasiveness |-> 0,
     contradictions |-> <<>>,
     claims |-> [k \in {} |-> None],
     fraud_flags |-> <<>>]

\* the categories that have a keyword list
KeywordCats == {"ties", "funds", "academics", "intent", "purpose"}

\* matched, lines 190-192; t is the lower-cased text
Matched(cat, t) ==
    \/ AnyIn(Keywords(cat), t)
    \/ cat = "funds" /\ \E i \in 1..Len(t) : IsDigit(Ch(t, i))

\* what update reads off the answer text (lines 181-205), t = text.lower()
UpdateFacts(text) ==
    LET t == Lower(text)
    IN  [matched |-> {c \in KeywordCats : Matched(c, t)},
         words |-> Len(Split(t)),
         evasive |-> AnyIn(EvasivePhrases, t),
         sponsor |-> AnyIn(SponsorWords, t),
         university |-> AnyIn(UniversityWords, t),
         major |-> AnyIn(MajorWords, t),
         fraud |-> Contains(t, "fake") \/ Contains(t, "arranged")]

\* a 40-word answer that matches ties, funds, academics and intent
LongAnswer ==
    "my father has a house and land at home and i have a gpa of 4 and i plan to return to my job when my course is over as my career goal is a role in my home town ok"

\* the answer texts the specifications draw from
ScorerTexts ==
    {"", LongAnswer, "Maybe, not sure", "fake visit arranged by father"}

\* what the transcriber returns in a session: None or a stripped, non-empty text
GoodAnswer == "Father has house, GPA is 4"
BioAnswer == "Maybe biology, not sure"
SessionAnswers == {GoodAnswer, BioAnswer}

AnswerTexts == ScorerTexts \cup SessionAnswers

\* UpdateFacts of the answer texts, computed once
UpdateFactsTable == [text \in AnswerTexts |-> UpdateFacts(text)]
TextFacts(text) ==
    IF text \in AnswerTexts THEN UpdateFactsTable[text] ELSE UpdateFacts(text)

\* a plausible slip: any earlier value of the key counts as a contradiction
SetClaimRepeated(sc, key, val) ==
    LET prev == IF key \in DOMAIN sc.claims THEN sc.claims[key] ELSE None
        sc1 == IF prev # None /\ prev # ""
               THEN [sc EXCEPT !.contradictions = Append(@, <<key, prev, val>>)]
               ELSE sc
    IN  [sc1 EXCEPT !.claims = [k \in DOMAIN sc.claims \cup {key} |->
                                    IF k = key THEN val ELSE sc.claims[k]]]

\* set_claim, lines 209-213
set_claim(sc, key, val) ==
    LET prev == IF key \in DOMAIN sc.claims THEN sc.claims[key] ELSE None
        sc1 == IF prev # None /\ prev # "" /\ prev # val
               THEN [sc EXCEPT !.contradictions = Append(@, <<key, prev, val>>)]
               ELSE sc
    IN  [sc1 EXCEPT !.claims = [k \in DOMAIN sc.claims \cup {key} |->
                                    IF k = key THEN val ELSE sc.claims[k]]]

\* _track_claims, with the three tests on t taken from the facts f of the text
_track_claims(sc, f) ==
    LET s1 == IF f.sponsor THEN set_claim(sc, "sponsor", "mentioned") ELSE sc
        s2 == IF f.university THEN set_claim(s1, "university", "mentioned") ELSE s1
    IN  IF f.major THEN set_claim(s2, "major", "mentioned") ELSE s2

\* update raises KeyError at line 195: self.evidence has no key for cat
UpdateRaises(cat, text) ==
    text # "" /\ cat \in TextFacts(text).matched /\ cat \notin EvidenceKeys

\* a plausible slip: the points are credited whether or not the text matched
UpdateCreditAlways(sc, cat, base_points, text) ==
    IF text = "" THEN sc
    ELSE
      LET pts == Weighted(Max(0, Min(3, base_points)), cat)
          f == TextFacts(text)
          s0 == [sc EXCEPT !.max_possible = FAddPos(@, Weighted(3, cat)),
                           !.points = FAddPos(@, pts)]
          s1 == IF cat \in f.matched
                THEN [s0 EXCEPT !.evidence[cat] = Append(@, text),
                                !.categories_scored = @ \cup {cat},
                                !.response_quality = Append(@, Min(40, f.words))]
                ELSE [s0 EXCEPT !.response_quality = Append(@, 16)]
          s2 == IF f.evasive THEN [s1 EXCEPT !.evasiveness = @ + 1] ELSE s1
          s3 == _track_claims(s2, f)
      IN  IF cat \in f.matched /\ cat \notin EvidenceKeys THEN s0
          ELSE IF f.fraud
               THEN [s3 EXCEPT !.fraud_flags = Append(@, FraudFlag)]
               ELSE s3

\* a plausible slip: the raw points are floored at 0 but not capped at 3
UpdatePointsUncapped(sc, cat, base_points, text) ==
    IF text = "" THEN sc
    ELSE
      LET pts == FMulInt(Max(0, base_points), Weight(cat))
          f == TextFacts(text)
          s0 == [sc EXCEPT !.max_possible = FAddPos(@, Weighted(3, cat))]
          matched == cat \in f.matched
          s1 == IF matched
                THEN [s0 EXCEPT !.points = FAddPos(@, pts),
                                !.evidence[cat] = Append(@, text),
                                !.categories_scored = @ \cup {cat},
                                !.response_quality = Append(@, Min(40, f.words))]
                ELSE [s0 EXCEPT !.response_quality = Append(@, 16)]
          s2 == IF f.evasive THEN [s1 EXCEPT !.evasiveness = @ + 1] ELSE s1
          s3 == _track_claims(s2, f)
      IN  IF matched /\ cat \notin EvidenceKeys
          THEN [s0 EXCEPT !.points = FAddPos(@, pts)]
          ELSE IF f.fraud
               THEN [s3 EXCEPT !.fraud_flags = Append(@, FraudFlag)]
               ELSE s3

\* a plausible slip: max_possible is raised only when the text matched
UpdateMaxOnMatch(sc, cat, base_points, text) ==
    IF text = "" THEN sc
    ELSE
      LET pts == Weighted(Max(0, Min(3, base_points)), cat)
          f == TextFacts(text)
          matched == cat \in f.matched
          s0 == IF matched
                THEN [sc EXCEPT !.max_possible = FAddPos(@, Weighted(3, cat))]
                ELSE sc
          s1 == IF matched
                THEN [s0 EXCEPT !.points = FAddPos(@, pts),
                                !.evidence[cat] = Append(@, text),
                                !.categories_scored = @ \cup {cat},
                                !.response_quality = Append(@, Min(40, f.words))]
                ELSE [s0 EXCEPT !.response_quality = Append(@, 16)]
          s2 == IF f.evasive THEN [s1 EXCEPT !.evasiveness = @ + 1] ELSE s1
          s3 == _track_claims(s2, f)
      IN  IF matched /\ cat \notin EvidenceKeys
          THEN [s0 EXCEPT !.points = FAddPos(@, pts)]
          ELSE IF f.fraud
               THEN [s3 EXCEPT !.fraud_flags = Append(@, FraudFlag)]
               ELSE s3

\* a plausible slip: the evidence of a category is replaced, not appended to
UpdateEvidenceLatest(sc, cat, base_points, text) ==
    IF text = "" THEN sc
    ELSE
      LET pts == Weighted(Max(0, Min(3, base_points)), cat)
          f == TextFacts(text)
          s0 == [sc EXCEPT !.max_possible = FAddPos(@, Weighted(3, cat))]
          matched == cat \in f.matched
          s1 == IF matched
                THEN [s0 EXCEPT !.points = FAddPos(@, pts),
                                !.evidence[cat] = <<text>>,
                                !.categories_scored = @ \cup {cat},
                                !.response_quality = Append(@, Min(40, f.words))]
                ELSE [s0 EXCEPT !.response_quality = Append(@, 16)]
          s2 == IF f.evasive THEN [s1 EXCEPT !.evasiveness = @ + 1] ELSE s1
          s3 == _track_claims(s2, f)
      IN  IF matched /\ cat \notin EvidenceKeys
          THEN [s0 EXCEPT !.points = FAddPos(@, pts)]
          ELSE IF f.fraud
               THEN [s3 EXCEPT !.fraud_flags = Append(@, FraudFlag)]
               ELSE s3

\* VisaScorer.update: the scorer after the call.  When the call raises
\* (UpdateRaises) the assignments made before line 195 stay.
update(sc, cat, base_points, text) ==
    IF text = "" THEN sc
    ELSE
      LET pts == Weighted(Max(0, Min(3, base_points)), cat)
          f == TextFacts(text)
          s0 == [sc EXCEPT !.max_possible = FAddPos(@, Weighted(3, cat))]
          matched == cat \in f.matched
          s1 == IF matched
                THEN [s0 EXCEPT !.points = FAddPos(@, pts),
                                !.evidence[cat] = Append(@, text),
                                !.categories_scored = @ \cup {cat},
                                !.response_quality = Append(@, Min(40, f.words))]
                ELSE [s0 EXCEPT !.response_quality = Append(@, 16)]
          s2 == IF f.evasive THEN [s1 EXCEPT !.evasiveness = @ + 1] ELSE s1
          s3 == _track_claims(s2, f)
      IN  IF matched /\ cat \notin EvidenceKeys
          THEN [s0 EXCEPT !.points = FAddPos(@, pts)]
          ELSE IF f.fraud
               THEN [s3 EXCEPT !.fraud_flags = Append(@, FraudFlag)]
               ELSE s3

\* penalty, line 226
Penalty(sc) ==
    sc.evasiveness * 3 + Len(sc.contradictions) * 8
        + Cardinality(EvidenceKeys \ sc.categories_scored) * 8

\* final, lines 225-228, as a signed float
ScoreFinal(sc) ==
    LET base == FMulInt(100, FDiv(sc.points, sc.max_possible))
        mean == FDiv(BMulSmall(Pow2(FracBits - 2), SumSeq(sc.response_quality)),
                     FromInt(Max(1, Len(sc.response_quality))))
        quality == FAdd(Signed(FALSE, mean), Signed(TRUE, FromInt(5)))
    IN  FAdd(FAdd(Signed(FALSE, base), Signed(TRUE, FromInt(Penalty(sc)))),
             Signed(quality.neg, BMulSmall(quality.mag, 2)))

\* a plausible slip: the result is rounded but not clamped
ScoreUnclamped(sc) ==
    IF sc.max_possible = <<>> THEN 0
    ELSE RoundFloat(ScoreFinal(sc))

\* VisaScorer.score
score(sc) ==
    IF sc.max_possible = <<>> THEN 0
    ELSE Max(0, Min(100, RoundFloat(ScoreFinal(sc))))

-----------------------------------------------------------------------------
(* AnswerAnalysis (logic/analysis.py), the fields the session reads.       *)

\* a character of the class [a-z0-9]
IsAlnumLower(c) == InStr(c, LowerChars) \/ InStr(c, DigitChars)

\* re.findall(r"[a-z0-9]+", s)
Tokens(s) == Runs(s, IsAlnumLower)

HintCats == <<"academics", "funds", "ties", "intent">>   \* HINTS, in declaration order
HINTS(cat) ==
    CASE cat = "academics" ->
            <<"gpa", "project", "course", "professor", "lab", "semester", "research", "thesis">>
      [] cat = "funds" ->
            <<"bank", "loan", "sponsor", "father", "mother", "tuition", "living",
              "scholarship", "rs", "usd">>
      [] cat = "ties" ->
            <<"family", "parents", "home", "property", "house", "land", "return", "community">>
      [] cat = "intent" ->
            <<"after graduation", "plan", "career", "job", "company", "return", "goal", "role">>

UNCERTAINTY == <<"maybe", "not sure", "i think", "probably", "perhaps", "i guess", "don't know">>
BioWords == <<"biology", "biological", "life", "zoology">>

\* _primary_cat: the first category of HINTS with the most hint words among
\* the tokens, None when no hint word occurs
_primary_cat(token_set) ==
    LET count(k) == Cardinality({j \in 1..Len(HINTS(HintCats[k])) :
                                    HINTS(HintCats[k])[j] \in token_set})
        best == CHOOSE k \in 1..Len(HintCats) :
                    /\ \A j \in 1..Len(HintCats) : count(j) <= count(k)
                    /\ \A j \in 1..(k - 1) : count(j) < count(k)
    IN  IF count(best) > 0 THEN HintCats[best] ELSE None

\* AnswerAnalysis.__init__
AnswerAnalysis(text) ==
    LET lower == Lower(text)
        tokens == Tokens(lower)
        token_set == Range(tokens)
    IN  [raw |-> text,
         lower |-> lower,
         tokens |-> tokens,
         length |-> Len(tokens),
         primary |-> _primary_cat(token_set),
         vague |-> Len(tokens) < 4 \/ \E j \in 1..Len(UNCERTAINTY) : UNCERTAINTY[j] \in token_set,
         bio_hint |-> \E j \in 1..Len(BioWords) : BioWords[j] \in token_set,
         uncertainty_detected |-> AnyIn(UNCERTAINTY, lower)]

-----------------------------------------------------------------------------
(* parse_ai_with_ap (logic/interview.py).                                   *)

NoDecision == <<>>   \* decision = None; a decision is the pair <<type, reason>>

\* the line boundaries of str.splitlines: \n, \r, U+000B, U+000C, U+001C to
\* U+001E and U+0085 (U+001F is white space but no line boundary)
IsLineBreak(c) == c \in {"\n", "\r", "\f", "", "", "", "", ""}
NotLineBreak(c) == ~IsLineBreak(c)

\* the non-empty lines of str.splitlines() (the loop skips the empty ones)
SplitLines(s) == Runs(s, NotLineBreak)

\* the position of the first ch in s, 0 when there is none
Find(s, ch) ==
    LET at == {i \in 1..Len(s) : Ch(s, i) = ch}
    IN  IF at = {} THEN 0 ELSE SetMin(at)

DigitVal(c) == (CHOOSE i \in 1..10 : Ch(DigitChars, i) = c) - 1

RECURSIVE DigitsVal(_)
DigitsVal(s) ==
    IF s = "" THEN 0
    ELSE IF Ch(s, Len(s)) = "_" THEN DigitsVal(SubSeq(s, 1, Len(s) - 1))
    ELSE 10 * DigitsVal(SubSeq(s, 1, Len(s) - 1)) + DigitVal(Ch(s, Len(s)))

\* int(s) for a stripped s: an optional sign, then decimal digits (0-9 are
\* the only ones of the alphabet: int rejects the superscripts), single
\* underscores allowed between digits, and at most 4300 digits, leading zeros
\* counted (the interpreter's limit sys.int_max_str_digits, of which 4300 is
\* the default); [ok |-> FALSE] stands for ValueError.  A Python int has no
\* largest value while TLC's integers end at 2^31 - 1: val is the number when
\* it has at most nine digits after its leading zeros, and 10^9 with the
\* number's sign when it has more.  The number is read by update alone, as
\* max(0, min(3, base_points)) (logic/analysis.py, line 179).
IntParse(s) ==
    LET signed == s # "" /\ Ch(s, 1) \in {"+", "-"}
        body == IF signed THEN Rest(s) ELSE s
        digits == {i \in 1..Len(body) : InStr(Ch(body, i), DigitChars)}
        wellformed ==
            /\ body # ""
            /\ \A i \in 1..Len(body) : i \in digits \/ Ch(body, i) = "_"
            /\ 1 \in digits /\ Len(body) \in digits
            /\ ~Contains(body, "__")
            /\ Cardinality(digits) <= 4300
        nonzero == {i \in digits : Ch(body, i) # "0"}
        magnitude ==
            IF nonzero = {} THEN 0
            ELSE IF Cardinality({i \in digits : i >= SetMin(nonzero)}) > 9 THEN 1000000000
            ELSE DigitsVal(SubSeq(body, SetMin(nonzero), Len(body)))
    IN  IF ~wellformed THEN [ok |-> FALSE, val |-> 0]
        ELSE [ok |-> TRUE,
              val |-> IF signed /\ Ch(s, 1) = "-" THEN 0 - magnitude ELSE magnitude]

\* str(n) for 0 <= n
RECURSIVE IntToStr(_)
IntToStr(n) ==
    IF n < 10 THEN Ch(DigitChars, n + 1)
    ELSE IntToStr(n \div 10) \o Ch(DigitChars, (n % 10) + 1)

\* the dictionary m of line 212
CatAlias(c) ==
    CASE c = "education" -> "academics"
      [] c = "financial" -> "funds"
      [] c = "finance" -> "funds"
      [] c = "family" -> "ties"
      [] c = "purpose" -> "intent"
      [] OTHER -> c

\* a plausible slip: type and reason are not stripped
DecisionOfUnstripped(body) ==
    LET k == Find(body, ":")
    IN  IF k > 0
        THEN <<SubSeq(body, 1, k - 1), SubSeq(body, k + 1, Len(body))>>
        ELSE <<body, "Based on interview responses">>

\* lines 221-225: the decision of a DECISION line's body
DecisionOf(body) ==
    LET k == Find(body, ":")
    IN  IF k > 0
        THEN <<Strip(SubSeq(body, 1, k - 1)), Strip(SubSeq(body, k + 1, Len(body)))>>
        ELSE <<Strip(body), "Based on interview responses">>

\* one pass of the loop body, lines 200-227; a holds q, decision, cat, pts,
\* score_line, dec_line
ParseLine(a, line) ==
    LET t == Strip(line)
    IN  IF t = "" THEN a
        ELSE IF UpperStartsWith(t, "QUESTION:")
        THEN [a EXCEPT !.q = Strip(SubSeq(t, 10, Len(t)))]
        ELSE IF UpperStartsWith(t, "SCORE:")
        THEN LET body == Strip(SubSeq(t, 7, Len(t)))
                 k == Find(body, ":")
                 c == Lower(Strip(SubSeq(body, 1, k - 1)))
                 p == IntParse(Strip(SubSeq(body, k + 1, Len(body))))
                 a1 == [a EXCEPT !.score_line = t]
             IN  IF k = 0 THEN a1                                \* split raises
                 ELSE IF ~p.ok THEN [a1 EXCEPT !.cat = CatAlias(c)]  \* int raises
                 ELSE [a1 EXCEPT !.cat = CatAlias(c), !.pts = p.val]
        ELSE IF UpperStartsWith(t, "DECISION:")
        THEN LET body == Strip(SubSeq(t, 10, Len(t)))
             IN  [a EXCEPT !.dec_line = t, !.decision = DecisionOf(body)]
        ELSE a

RECURSIVE ParseLinesFrom(_, _)
ParseLinesFrom(a, lines) ==
    IF lines = <<>> THEN a ELSE ParseLinesFrom(ParseLine(a, lines[1]), Tail(lines))

\* lines 192-227: the loop over ai_text.splitlines()
ParseLines(ai_text) ==
    ParseLinesFrom([q |-> None, decision |-> NoDecision, cat |-> "intent", pts |-> 1,
                    score_line |-> None, dec_line |-> None],
                   SplitLines(ai_text))

\* the replies of the question generator the specifications draw from
ReplyQuestion == "QUESTION: Who pays for your studies?\nSCORE: funds:3"
ReplyAlias == "Question: Show me your family ties\nscore: Family : 3"
ReplyNoQuestion == "SCORE: academics:3\nThank you."
ReplyDenied == "DECISION: DENIED:weak ties"
ReplyApproved ==
    "QUESTION: Do you use social media?\nSCORE: intent:2\nDecision: APPROVED: credible plan"
ReplyEmptyReason == "DECISION: DENIED:"
ReplyOtherType == "decision: maybe"
ReplyBadPoints == "SCORE: funds:high\nDECISION: DENIED:no figures"
ReplyTexts ==
    {ReplyQuestion, ReplyAlias, ReplyNoQuestion, ReplyDenied, ReplyApproved,
     ReplyEmptyReason, ReplyOtherType, ReplyBadPoints}

\* ParseLines of the reply texts, computed once
ParseLinesTable == [r \in ReplyTexts |-> ParseLines(r)]
ParsedReply(ai_text) ==
    IF ai_text \in ReplyTexts THEN ParseLinesTable[ai_text] ELSE ParseLines(ai_text)

ScoredCats == {"academics", "funds", "ties", "intent", "purpose"}   \* line 229

\* lines 232-237
Sanitize(q) ==
    IF q = None \/ q = "" THEN q
    ELSE IF Contains(Lower(q), "ds-160") THEN q
    ELSE IF Contains(Lower(q), "show me") \/ Contains(Lower(q), "provide document")
    THEN "Can you explain that in more detail?"
    ELSE q

\* Sanitize of the reply texts' questions, computed once
SanitizeTable == [r \in ReplyTexts |-> Sanitize(ParseLinesTable[r].q)]
SanitizedQ(ai_text) ==
    IF ai_text \in ReplyTexts THEN SanitizeTable[ai_text] ELSE Sanitize(ParseLines(ai_text).q)

\* parse_ai_with_ap: what it returns, and the scorer after the call
parse_ai_with_ap(ai_text, user_text, sc) ==
    IF ai_text = None \/ ai_text = ""
    THEN [q |-> None, decision |-> NoDecision, done |-> FALSE,
          score_line |-> None, dec_line |-> None, scorer |-> sc, raised |-> FALSE]
    ELSE LET a == ParsedReply(ai_text)
             scored == a.cat \in ScoredCats
         IN  [q |-> SanitizedQ(ai_text),
              decision |-> a.decision,
              done |-> a.decision # NoDecision,
              score_line |-> a.score_line,
              dec_line |-> a.dec_line,
              scorer |-> IF scored THEN update(sc, a.cat, a.pts, user_text) ELSE sc,
              raised |-> scored /\ UpdateRaises(a.cat, user_text)]

-----------------------------------------------------------------------------
(* AdministrativeProcessingTracker (logic/analysis.py).                     *)

FinancialHedges ==
    <<"not sure", "don't know", "maybe", "probably", "i think",
      "my father will arrange", "we have enough", "sufficient funds">>
FinancialTerms == <<"salary", "savings", "bank", "amount", "figure">>

\* a plausible slip: both conditions required (and instead of or)
FinancialUncertaintyBoth(text) ==
    LET vague_financial == AnyIn(FinancialHedges, Lower(text))
        no_specifics == ~AnyIn(FinancialTerms, Lower(text))
    IN  vague_financial /\ no_specifics

\* _financial_uncertainty
_financial_uncertainty(text) ==
    LET vague_financial == AnyIn(FinancialHedges, Lower(text))
        no_specifics == ~AnyIn(FinancialTerms, Lower(text))
    IN  vague_financial \/ no_specifics

\* str.count(sub) for a sub that cannot overlap itself
Count(t, sub) ==
    Cardinality({i \in 1..(Len(t) - Len(sub) + 1) : SubSeq(t, i, i + Len(sub) - 1) = sub})

\* what analyze_response reads off the answer text
ApFacts(text) ==
    [financial |-> _financial_uncertainty(text),
     words |-> Len(Split(text)),
     fillers |-> Count(Lower(text), "um") + Count(Lower(text), "uh")]

\* the texts handed to analyze_response
ApCalmAnswer == "my salary and savings at the bank cover it"
ApHedgedAnswer == "I don't know, maybe my father will help"
ApMixedAnswer == "MAYBE my Bank savings"
ApPlainAnswer == "My uncle pays"
ApFillerAnswer == "um, uh, um, uh, my salary is enough for all of it"
ApTexts == {ApCalmAnswer, ApHedgedAnswer, ApMixedAnswer, ApPlainAnswer, ApFillerAnswer}

\* ApFacts of those texts, computed once
ApFactsTable == [text \in ApTexts |-> ApFacts(text)]
ApTextFacts(text) == IF text \in ApTexts THEN ApFactsTable[text] ELSE ApFacts(text)

\* The analysis dictionary is the record [specificity3, stress10,
\* consistency_flags]: specificity_score in thirds (matches / 3.0),
\* stress_level in tenths, an absent key being its default 0 or [].

\* _academic_issues: specificity_score < 0.3 or fewer than 8 words
_academic_issues(text, analysis) ==
    LET weak_preparation == 10 * analysis.specificity3 < 9
        vague_motivation == ApTextFacts(text).words < 8
    IN  weak_preparation \/ vague_motivation

\* _credibility_concerns: stress_level > 0.7 or more than 3 fillers
_credibility_concerns(text, analysis) ==
    LET high_stress == analysis.stress10 > 7
        multiple_fillers == ApTextFacts(text).fillers > 3
    IN  high_stress \/ multiple_fillers

\* the names an AdministrativeProcessingTracker answers to
TrackerAttributes ==
    {"financial_triggers", "academic_triggers", "consistency_triggers",
     "credibility_triggers", "ap_threshold", "analyze_response",
     "_financial_uncertainty", "_academic_issues", "_credibility_concerns",
     "_should_escalate_to_ap", "get_ap_reason"}

\* a plausible slip: the total must exceed the threshold
ShouldEscalateAbove(ap) ==
    ap.financial_triggers + ap.academic_triggers
        + ap.consistency_triggers + ap.credibility_triggers > ap.ap_threshold

\* _should_escalate_to_ap
_should_escalate_to_ap(ap) ==
    ap.financial_triggers + ap.academic_triggers
        + ap.consistency_triggers + ap.credibility_triggers >= ap.ap_threshold

\* a plausible slip: a counter must exceed 2 to be named
GetApReasonAbove(ap) ==
    LET reasons ==
            (IF ap.financial_triggers > 2 THEN <<"financial verification">> ELSE <<>>)
         \o (IF ap.academic_triggers > 2 THEN <<"academic background review">> ELSE <<>>)
         \o (IF ap.consistency_triggers > 2 THEN <<"information consistency check">> ELSE <<>>)
         \o (IF ap.credibility_triggers > 2 THEN <<"applicant credibility assessment">> ELSE <<>>)
    IN  IF reasons # <<>> THEN Join(" & ", reasons) ELSE "standard administrative review"

\* get_ap_reason
get_ap_reason(ap) ==
    LET reasons ==
            (IF ap.financial_triggers >= 2 THEN <<"financial verification">> ELSE <<>>)
         \o (IF ap.academic_triggers >= 2 THEN <<"academic background review">> ELSE <<>>)
         \o (IF ap.consistency_triggers >= 2 THEN <<"information consistency check">> ELSE <<>>)
         \o (IF ap.credibility_triggers >= 2 THEN <<"applicant credibility assessment">> ELSE <<>>)
    IN  IF reasons # <<>> THEN Join(" & ", reasons) ELSE "standard administrative review"

\* a plausible slip: total_triggers counts the triggers of this call only
AnalyzeResponseCallTotal(ap, user_text, analysis, t) ==
    LET fin == ApTextFacts(user_text).financial
        aca == _academic_issues(user_text, analysis)
        con == analysis.consistency_flags # <<>>
        cre == _credibility_concerns(user_text, analysis)
        ap1 == [ap EXCEPT
                   !.financial_triggers = IF fin THEN @ + 1 ELSE @,
                   !.academic_triggers = IF aca THEN @ + 1 ELSE @,
                   !.consistency_triggers = IF con THEN @ + 1 ELSE @,
                   !.credibility_triggers = IF cre THEN @ + 1 ELSE @]
        triggers ==
            (IF fin THEN <<"financial verification needed">> ELSE <<>>)
         \o (IF aca THEN <<"academic background verification">> ELSE <<>>)
         \o (IF con THEN <<"inconsistent information">> ELSE <<>>)
         \o (IF cre THEN <<"credibility concerns">> ELSE <<>>)
    IN  [tracker |-> ap1,
         triggers |-> triggers,
         total_triggers |-> Len(triggers),
         should_escalate_ap |-> _should_escalate_to_ap(ap1),
         ap_reason |-> IF triggers # <<>> THEN Join(" & ", triggers) ELSE None]

\* analyze_response: the tracker after the call and the dictionary returned
analyze_response(ap, user_text, analysis, t) ==
    LET fin == ApTextFacts(user_text).financial
        aca == _academic_issues(user_text, analysis)
        con == analysis.consistency_flags # <<>>
        cre == _credibility_concerns(user_text, analysis)
        ap1 == [ap EXCEPT
                   !.financial_triggers = IF fin THEN @ + 1 ELSE @,
                   !.academic_triggers = IF aca THEN @ + 1 ELSE @,
                   !.consistency_triggers = IF con THEN @ + 1 ELSE @,
                   !.credibility_triggers = IF cre THEN @ + 1 ELSE @]
        triggers ==
            (IF fin THEN <<"financial verification needed">> ELSE <<>>)
         \o (IF aca THEN <<"academic background verification">> ELSE <<>>)
         \o (IF con THEN <<"inconsistent information">> ELSE <<>>)
         \o (IF cre THEN <<"credibility concerns">> ELSE <<>>)
    IN  [tracker |-> ap1,
         triggers |-> triggers,
         total_triggers |-> ap1.financial_triggers + ap1.academic_triggers
                            + ap1.consistency_triggers + ap1.credibility_triggers,
         should_escalate_ap |-> _should_escalate_to_ap(ap1),
         ap_reason |-> IF triggers # <<>> THEN Join(" & ", triggers) ELSE None]

-----------------------------------------------------------------------------
(* Initial values shared by the specifications.                            *)

\* AdministrativeProcessingTracker.__init__
ApTrackerInit ==
    [financial_triggers |-> 0, academic_triggers |-> 0,
     consistency_triggers |-> 0, credibility_triggers |-> 0, ap_threshold |-> 2]

\* InterviewSession.__init__
SessionFields ==
    /\ history = <<>>
    /\ transcript = <<>>
    /\ istate = InterviewStateInit
    /\ scorer = reset
    /\ ap_tracker = ApTrackerInit

\* the variables of run before run is called
RunIdle ==
    /\ pc = "idle"
    /\ frame = None
    /\ turn = 0
    /\ decision = NoDecision
    /\ data = None
    /\ io = <<>>
    /\ report = None

-----------------------------------------------------------------------------
(* SpecScorer: a VisaScorer driven by any sequence of update and reset     *)
(* calls, with score() read at any point.  probe counts the update calls   *)
(* made since the scorer was last reset.                                   *)

MaxUpdates == 3

ScorerCats == {"ties", "funds", "academics", "purpose", "hobbies"}
ScorerPoints == {-1, 2, 5}

InitScorer ==
    /\ SessionFields
    /\ RunIdle
    /\ input = None
    /\ probe = [op |-> "reset", calls |-> 0, matched |-> 0, raised |-> FALSE, out |-> 0]

\* one call scorer.update(cat, base_points, text)
ScorerUpdate(cat, base_points, text) ==
    /\ probe.calls < MaxUpdates
    /\ scorer' = update(scorer, cat, base_points, text)
    /\ probe' = [op |-> "update", calls |-> probe.calls + 1,
                 matched |-> probe.matched
                     + (IF text # "" /\ cat \in TextFacts(text).matched THEN 1 ELSE 0),
                 raised |-> UpdateRaises(cat, text),
                 out |-> 0]
    /\ UNCHANGED <<pc, frame, turn, decision, history, transcript, istate, ap_tracker,
                   data, io, report, input>>

\* one call scorer.score()
ScorerScore ==
    /\ probe.op # "score"
    /\ probe' = [probe EXCEPT !.op = "score", !.out = score(scorer)]
    /\ UNCHANGED <<pc, frame, turn, decision, history, transcript, istate, scorer,
                   ap_tracker, data, io, report, input>>

\* one call scorer.reset()
ScorerReset ==
    /\ scorer' = reset
    /\ probe' = [op |-> "reset", calls |-> 0, matched |-> 0, raised |-> FALSE, out |-> 0]
    /\ UNCHANGED <<pc, frame, turn, decision, history, transcript, istate, ap_tracker,
                   data, io, report, input>>

NextScorer ==
    \/ \E cat \in ScorerCats, p \in ScorerPoints, text \in ScorerTexts :
           ScorerUpdate(cat, p, text)
    \/ ScorerScore
    \/ ScorerReset

SpecScorer == InitScorer /\ [][NextScorer]_vars

\* C7: after any sequence of update calls, score() returns a value in [0, 100]
C7_ScoreInRange == probe.op = "score" => probe.out \in 0..100

\* score() was called after updates, and the unclamped value lay outside [0, 100]
C7_Witness ==
    /\ probe.op = "score"
    /\ probe.calls >= 2
    /\ ScoreUnclamped(scorer) < 0

\* score() was called and the unclamped value lay above 100
C7_WitnessHigh ==
    /\ probe.op = "score"
    /\ ScoreUnclamped(scorer) > 100

\* C8: after update calls none of which matched its category's keywords,
\* score() returns 0, also when non-empty answers were processed
C8_ZeroWithoutMatch ==
    (probe.op = "score" /\ probe.matched = 0) => probe.out = 0

\* score() was called after an unmatched update of a non-empty answer
C8_Witness ==
    /\ probe.op = "score"
    /\ probe.matched = 0
    /\ scorer.max_possible # <<>>
    /\ scorer.categories_scored = {}
    /\ probe.out = 0

-----------------------------------------------------------------------------
(* SpecTopic: the InterviewState operations on one question text q drawn  *)
(* by Init: _norm applied repeatedly, record(q, hint), too_similar(q, t).  *)
(* TLC keeps a character beyond U+007F intact in a definition but not in a *)
(* state it has stored, so input.q holds the question spelled in ASCII and *)
(* Spelled(input.q) is the text q the operations are called with.          *)

MaxQLen == 3       \* the longest question text drawn
MaxRecords == 2    \* record(q, hint) is called at most this often
MaxNorms == 2      \* _norm is applied at most this often in a row

\* a small letter, a capital, a digit, white space, punctuation, and the
\* spelling of a letter that is not in a-z
QChars == {"a", "B", "1", " ", "?", "^"}

\* the text that s spells: "^" stands for U+00C9 (E with acute, a capital
\* whose small letter is U+00E9)
RECURSIVE Spelled(_)
Spelled(s) ==
    IF s = "" THEN ""
    ELSE (IF Ch(s, 1) = "^" THEN "É" ELSE Ch(s, 1)) \o Spelled(Rest(s))

\* every text of at most n characters over QChars
RECURSIVE TextsUpTo(_)
TextsUpTo(n) ==
    IF n = 0 THEN {""}
    ELSE TextsUpTo(n - 1) \cup {s \o c : s \in TextsUpTo(n - 1), c \in QChars}

Questions == TextsUpTo(MaxQLen)
OtherQuestion == "What is your GPA?"
Thresholds10 == {-5, 0, 8, 10}     \* thresholds <= 1.0, in tenths
RecordHints == {None, "funds"}

InitTopic ==
    /\ SessionFields
    /\ RunIdle
    /\ input \in [q : Questions, threshold10 : Thresholds10]
    /\ probe = [op |-> "init", norms |-> 0, text |-> input.q, prev |-> input.q,
                records |-> 0, similar |-> FALSE]

\* text = _norm(text), starting from q (text holds the spelling of q until
\* then, and a result of _norm, which is made of a-z, 0-9 and spaces, after)
TopicNorm ==
    /\ probe.op \in {"init", "_norm"}
    /\ probe.norms < MaxNorms
    /\ probe' = [probe EXCEPT !.op = "_norm", !.norms = @ + 1,
                              !.prev = probe.text,
                              !.text = _norm(IF probe.norms = 0 THEN Spelled(probe.text)
                                             ELSE probe.text)]
    /\ UNCHANGED <<pc, frame, turn, decision, history, transcript, istate, scorer,
                   ap_tracker, data, io, report, input>>

\* another question is recorded before q
TopicRecordOther ==
    /\ probe.op = "init"
    /\ istate' = record(istate, OtherQuestion, None)
    /\ probe' = [probe EXCEPT !.op = "record_other"]
    /\ UNCHANGED <<pc, frame, turn, decision, history, transcript, scorer, ap_tracker,
                   data, io, report, input>>

\* istate.record(q, hint)
TopicRecord(hint) ==
    /\ probe.norms = 0
    /\ probe.records < MaxRecords
    /\ istate' = record(istate, Spelled(input.q), hint)
    /\ probe' = [probe EXCEPT !.op = "record", !.records = @ + 1]
    /\ UNCHANGED <<pc, frame, turn, decision, history, transcript, scorer, ap_tracker,
                   data, io, report, input>>

\* istate.too_similar(q, threshold)
TopicTooSimilar ==
    /\ probe.op \in {"init", "record_other", "record"}
    /\ probe' = [probe EXCEPT !.op = "too_similar",
                              !.similar = too_similar(istate, Spelled(input.q),
                                                      input.threshold10)]
    /\ UNCHANGED <<pc, frame, turn, decision, history, transcript, istate, scorer,
                   ap_tracker, data, io, report, input>>

NextTopic ==
    \/ TopicNorm
    \/ TopicRecordOther
    \/ \E hint \in RecordHints : TopicRecord(hint)
    \/ TopicTooSimilar

SpecTopic == InitTopic /\ [][NextTopic]_vars

\* C9: _norm is idempotent: applying it to its own result changes nothing
C9_NormIdempotent ==
    (probe.op = "_norm" /\ probe.norms >= 2) => probe.text = probe.prev

\* _norm was applied twice to a text that the first application changed
C9_Witness ==
    /\ probe.op = "_norm"
    /\ probe.norms = 2
    /\ probe.text # Spelled(input.q)
    /\ probe.text # ""

\* C10 as stated: after record(q, hint), once or twice, too_similar(q, threshold)
\* returns true for every q and every threshold <= 1.0
C10_Original ==
    (probe.op = "too_similar" /\ probe.records >= 1 /\ input.threshold10 <= 10)
        => probe.similar

\* q.lower() holds one of the characters a-z, 0-9: the characters that the
\* substitution of _norm keeps as part of a word
HasWord(q) ==
    \E i \in 1..Len(q) : InStr(Ch(Lower(q), i), LowerChars \o DigitChars)

\* C10 amended: after record(q, hint), once or twice, and for every threshold
\* <= 1.0, too_similar(q, threshold) returns true for every q whose lower-cased
\* text holds one of a-z, 0-9; for any other non-empty q (punctuation, white
\* space, letters and digits outside a-z, 0-9) it returns true exactly when the
\* threshold is <= 0; for the empty q, which record does not store, it returns
\* true exactly when the threshold is <= 0 and another question is recorded
C10_ReflexiveOnWords ==
    (probe.op = "too_similar" /\ probe.records >= 1 /\ input.threshold10 <= 10)
        => /\ HasWord(Spelled(input.q)) => probe.similar
           /\ (~HasWord(Spelled(input.q)) /\ input.q # "")
                  => (probe.similar <=> input.threshold10 <= 0)
           /\ input.q = ""
                  => (probe.similar <=> (input.threshold10 <= 0
                                           /\ istate.questions_history # <<>>))

\* too_similar returned true at threshold 1.0 for a recorded q that _norm
\* changes: q holds a capital of A-Z next to a letter outside a-z
C10_Witness ==
    /\ probe.op = "too_similar"
    /\ probe.records = 2
    /\ input.threshold10 = 10
    /\ HasWord(Spelled(input.q))
    /\ \E i \in 1..Len(input.q) : Ch(Spelled(input.q), i) = "É"
    /\ _norm(Spelled(input.q)) # Spelled(input.q)
    /\ Len(istate.questions_history) = 3
    /\ probe.similar

-----------------------------------------------------------------------------
(* Spec: InterviewSession.run        (logic/session.py).  run is a          *)
(* coroutine: it is suspended in every call it awaits.  pc names the call  *)
(* run is suspended in, and there is one action per awaited call: the call *)
(* returns, io gets its entry, and run executes up to the next await.      *)
(* DS160Manager.load is not awaited but waits for the user in input(), so  *)
(* it is a step of its own as well (pc = "ds_load" while it waits).        *)
(* The final decision and the save, which are not awaited, are steps of    *)
(* their own.  The model ends at the save (line 160): the feedback that    *)
(* follows (lines 162-179) reads history and touches none of the variables *)
(* below, so pc = "done" stands for every position of run past line 160.   *)

max_turns == 3     \* Config.max_turns (9 by default), scaled down

OpeningQuestions ==
    {"Good morning. What's the purpose of your trip to the United States?",
     "Hello, pass me your documents.",
     "Morning. What is the purpose of your trip to the United States?"}
ClarifyPrompt == "I need you to answer the question clearly."
\* a plausible slip: the fallback loses its question
FallbackPreamble == "Let me ask you another question."

FallbackQuestion ==
    "Let me ask you another question. What confirms you'll return home after studies?"
NoAnswerReason == "Unable to provide clear responses during interview."
AnalysisPrefix == "ANALYSIS (INTERNAL"

Majors == {"Biology", "Computer Science"}   \* data["major"]

Msg(role, content) == [role |-> role, content |-> content]

\* a plausible slip: the utterance is spoken before it is displayed
OfficerCallsSpokenFirst == <<"speak", "display_officer">>

\* _speak_and_log: the calls awaited, in order, and the transcript line
OfficerCalls == <<"display_officer", "speak">>
OfficerLine(text) == "OFFICER: " \o text

\* the frame of a call _speak_and_log(text) made at the given line of session.py
SpeakAndLog(text, line) == [text |-> text, line |-> line]

\* the message f"Decision: {decision_type}. {reason}" of _handle_decision
DecisionMessage(d) == "Decision: " \o d[1] \o ". " \o d[2]

\* a plausible slip: approval needs a score above 70, while the reason for a
\* low score is still given below 70
DecisionByScoreAbove(sc, final_score) ==
    IF final_score > 70 /\ sc.fraud_flags = <<>> /\ sc.contradictions = <<>>
    THEN <<"APPROVED", "Credible non-immigrant intent demonstrated.">>
    ELSE LET reasons ==
                 (IF sc.contradictions # <<>> THEN <<"inconsistent information">> ELSE <<>>)
              \o (IF sc.fraud_flags # <<>> THEN <<"credibility concerns">> ELSE <<>>)
              \o (IF final_score < 70 THEN <<"insufficient ties demonstration">> ELSE <<>>)
             reason_text == IF reasons # <<>> THEN Join("; ", reasons)
                            ELSE "insufficient evidence of non-immigrant intent"
         IN  <<"DENIED", reason_text \o " under INA 214(b).">>

\* lines 202-214 of _make_final_decision: the decision taken from the scorer
\* and final_score, the value of scorer.score() (line 196), when the case is
\* not escalated
DecisionByScore(sc, final_score) ==
    IF final_score >= 70 /\ sc.fraud_flags = <<>> /\ sc.contradictions = <<>>
    THEN <<"APPROVED", "Credible non-immigrant intent demonstrated.">>
    ELSE LET reasons ==
                 (IF sc.contradictions # <<>> THEN <<"inconsistent information">> ELSE <<>>)
              \o (IF sc.fraud_flags # <<>> THEN <<"credibility concerns">> ELSE <<>>)
              \o (IF final_score < 70 THEN <<"insufficient ties demonstration">> ELSE <<>>)
             reason_text == IF reasons # <<>> THEN Join("; ", reasons)
                            ELSE "insufficient evidence of non-immigrant intent"
         IN  <<"DENIED", reason_text \o " under INA 214(b).">>

\* _make_final_decision.  Line 198 calls ap_tracker.should_escalate_to_ap,
\* a name the tracker does not define (its method is _should_escalate_to_ap):
\* the attribute lookup raises AttributeError and nothing is returned.
\* The result is NoDecision when the call raises, the decision otherwise.
_make_final_decision(sc, ap) ==
    LET final_score == score(sc)
    IN  IF "should_escalate_to_ap" \notin TrackerAttributes
        THEN NoDecision
        ELSE IF _should_escalate_to_ap(ap)
        THEN <<"ADMINISTRATIVE PROCESSING",
               "Case requires verification: " \o get_ap_reason(ap)>>
        ELSE DecisionByScore(sc, final_score)

\* a plausible slip: the note suggests the answer's primary category
AnalysisInjectionPrimary(t, user_text, analysis, target_cat) ==
    "ANALYSIS (INTERNAL - DO NOT OUTPUT):\n"
        \o "- Turn: " \o IntToStr(t + 1) \o "\n"
        \o "- Answer: " \o SubSeq(user_text, 1, Min(200, Len(user_text))) \o "\n"
        \o "- Primary Category: "
        \o (IF analysis.primary # None THEN analysis.primary ELSE "unclear") \o "\n"
        \o "- Suggested Next Category: "
        \o (IF analysis.primary # None THEN analysis.primary ELSE "unclear") \o "\n"
        \o "REMINDER: Ask natural follow-up questions."

\* the analysis note of lines 123-130
analysis_injection(t, user_text, analysis, target_cat) ==
    "ANALYSIS (INTERNAL - DO NOT OUTPUT):\n"
        \o "- Turn: " \o IntToStr(t + 1) \o "\n"
        \o "- Answer: " \o SubSeq(user_text, 1, Min(200, Len(user_text))) \o "\n"
        \o "- Primary Category: "
        \o (IF analysis.primary # None THEN analysis.primary ELSE "unclear") \o "\n"
        \o "- Suggested Next Category: " \o target_cat \o "\n"
        \o "REMINDER: Ask natural follow-up questions."

\* a plausible slip: the content is compared with the prefix, not tested for it
StripAnalysisEqual(h) == SelectSeq(h, LAMBDA m : m.content # AnalysisPrefix)

\* line 135: the messages whose content does not start with the note's prefix
StripAnalysis(h) == SelectSeq(h, LAMBDA m : ~StartsWith(m.content, AnalysisPrefix))

\* a plausible slip: among the least asked categories the last one is taken
NextTargetLastLeast(st) ==
    LET order == <<"funds", "intent", "ties", "academics">>
        count(c) == Cardinality({i \in 1..Len(st.asked_categories) : st.asked_categories[i] = c})
        missing == {k \in 1..4 : order[k] \notin st.category_set}
        least == CHOOSE k \in 1..4 :
                     /\ \A j \in 1..4 : count(order[k]) <= count(order[j])
                     /\ \A j \in (k + 1)..4 : count(order[j]) > count(order[k])
    IN  IF st.turn < 5 /\ Cardinality(st.category_set) < 3 /\ missing # {}
        THEN order[SetMin(missing)]
        ELSE order[least]

\* a plausible slip: max(counts, key=counts.get) instead of min
NextTargetMostAsked(st) ==
    LET order == <<"funds", "intent", "ties", "academics">>
        count(c) == Cardinality({i \in 1..Len(st.asked_categories) : st.asked_categories[i] = c})
        missing == {k \in 1..4 : order[k] \notin st.category_set}
        most == CHOOSE k \in 1..4 :
                    /\ \A j \in 1..4 : count(order[k]) >= count(order[j])
                    /\ \A j \in 1..(k - 1) : count(order[j]) < count(order[k])
    IN  IF st.turn < 5 /\ Cardinality(st.category_set) < 3 /\ missing # {}
        THEN order[SetMin(missing)]
        ELSE order[most]

\* next_target_category
next_target_category(st) ==
    LET order == <<"funds", "intent", "ties", "academics">>
        count(c) == Cardinality({i \in 1..Len(st.asked_categories) : st.asked_categories[i] = c})
        missing == {k \in 1..4 : order[k] \notin st.category_set}
        least == CHOOSE k \in 1..4 :
                     /\ \A j \in 1..4 : count(order[k]) <= count(order[j])
                     /\ \A j \in 1..(k - 1) : count(order[j]) > count(order[k])
    IN  IF st.turn < 5 /\ Cardinality(st.category_set) < 3 /\ missing # {}
        THEN order[SetMin(missing)]
        ELSE order[least]

\* AnswerAnalysis of the session's answers, computed once
AnalysisTable == [text \in SessionAnswers |-> AnswerAnalysis(text)]
Analysis(text) ==
    IF text \in SessionAnswers THEN AnalysisTable[text] ELSE AnswerAnalysis(text)

\* a plausible slip: the bound is tested with <= instead of <
AfterIterationInclusive(t) == IF t + 1 <= max_turns THEN "status_listening" ELSE "final"

\* a plausible slip: the loop runs once more, range(max_turns + 1)
AfterIterationOneMore(t) == IF t + 1 < max_turns + 1 THEN "status_listening" ELSE "final"

\* where run goes when an iteration of the loop ends without break: the
\* first await of the next iteration, or past the loop
AfterIteration(t) == IF t + 1 < max_turns THEN "status_listening" ELSE "final"

\* line 85: the iteration ends without break.  When range is exhausted the
\* loop variable keeps the value of the last iteration.
NextIteration ==
    /\ pc' = AfterIteration(turn)
    /\ turn' = IF AfterIteration(turn) = "final" THEN turn ELSE turn + 1

InitSession ==
    /\ SessionFields
    /\ RunIdle
    /\ input = None
    /\ probe = None

\* line 40: interface.initialize returned
Initialize(ok) ==
    /\ pc = "idle"
    /\ io' = Append(io, <<"initialize", ok>>)
    /\ pc' = IF ok = "ok" THEN "stt_initialize" ELSE "returned"
    /\ UNCHANGED <<frame, turn, decision, history, transcript, istate, scorer,
                   ap_tracker, data, report, input, probe>>

\* lines 43-56: stt.initialize_async returned; run calls DS160Manager.load
SttInitialize(ok) ==
    /\ pc = "stt_initialize"
    /\ io' = Append(io, <<"stt_initialize", ok>>)
    /\ pc' = IF ok = "ok" THEN "ds_load" ELSE "returned"
    /\ UNCHANGED <<frame, turn, decision, history, transcript, istate, scorer,
                   ap_tracker, data, report, input, probe>>

\* lines 56-60: DS160Manager.load, which waits for the user in input()
\* (ds160.py:15, 34-59), returned the DS-160 record
DsLoad(major) ==
    /\ pc = "ds_load"
    /\ data' = [major |-> major]
    /\ pc' = "set_case_details"
    /\ UNCHANGED <<frame, turn, decision, history, transcript, istate, scorer,
                   ap_tracker, io, report, input, probe>>

\* lines 60-62: interface.set_case_details returned
SetCaseDetails ==
    /\ pc = "set_case_details"
    /\ io' = Append(io, <<"set_case_details", "">>)
    /\ pc' = "get_style"
    /\ UNCHANGED <<frame, turn, decision, history, transcript, istate, scorer,
                   ap_tracker, data, report, input, probe>>

\* lines 62-66: get_input returned the style, which goes into the prompt
\* and the report only
GetStyle ==
    /\ pc = "get_style"
    /\ io' = Append(io, <<"get_input", "style">>)
    /\ pc' = "get_embassy"
    /\ UNCHANGED <<frame, turn, decision, history, transcript, istate, scorer,
                   ap_tracker, data, report, input, probe>>

\* lines 66-80: get_input returned the embassy; the opening question is
\* chosen and _speak_and_log is called with it
GetEmbassy(opening_question) ==
    /\ pc = "get_embassy"
    /\ io' = Append(io, <<"get_input", "embassy">>)
    /\ frame' = SpeakAndLog(opening_question, 80)
    /\ pc' = "display_officer"
    /\ UNCHANGED <<turn, decision, history, transcript, istate, scorer,
                   ap_tracker, data, report, input, probe>>

\* the result of the last call of the given kind that has returned
LastResult(kind) ==
    LET at == {i \in 1..Len(io) : io[i][1] = kind}
    IN  io[SetMax(at)][2]

\* the locals user_text and ai_text of run
CurrentAnswer == LastResult("listen")
CurrentReply == LastResult("llm")

\* line 182: interface.display_officer returned
DisplayOfficer ==
    /\ pc = "display_officer"
    /\ io' = Append(io, <<OfficerCalls[1], frame.text>>)
    /\ pc' = "speak"
    /\ UNCHANGED <<frame, turn, decision, history, transcript, istate, scorer,
                   ap_tracker, data, report, input, probe>>

\* lines 183-184: tts.speak_async returned, the utterance is logged, and run
\* goes on from the line that called _speak_and_log
SpeakAsync ==
    /\ pc = "speak"
    /\ io' = Append(io, <<OfficerCalls[2], frame.text>>)
    /\ transcript' = Append(transcript, OfficerLine(frame.text))
    /\ frame' = None
    /\ CASE frame.line = 80 ->
              \* lines 81-86: the opening question enters the history
              /\ history' = Append(history,
                     Msg("assistant", "QUESTION: " \o frame.text \o "\nSCORE: intent:0"))
              /\ pc' = IF max_turns > 0 THEN "status_listening" ELSE "final"
              /\ UNCHANGED <<turn, decision, istate>>
         [] frame.line = 105 ->
              \* line 106: continue
              /\ NextIteration
              /\ UNCHANGED <<decision, history, istate>>
         [] frame.line = 139 ->
              \* lines 140-141: the fallback enters the history, continue
              /\ history' = Append(history,
                     Msg("assistant", "QUESTION: " \o frame.text \o "\nSCORE: intent:0"))
              /\ NextIteration
              /\ UNCHANGED <<decision, istate>>
         [] frame.line = 150 ->
              \* lines 151-154: the reply enters the history, the turn is counted
              /\ history' = Append(history, Msg("assistant", CurrentReply))
              /\ istate' = record([istate EXCEPT !.turn = @ + 1], frame.text, None)
              /\ NextIteration
              /\ UNCHANGED decision
         [] frame.line = 192 ->
              \* _handle_decision returns: break (line 147), or line 160
              /\ pc' = "save"
              /\ UNCHANGED <<turn, decision, history, istate>>
    /\ UNCHANGED <<scorer, ap_tracker, data, report, input, probe>>

\* a plausible slip: one more clarification is allowed
RetryAllowedThrice(t) == t < 3

\* line 104: a turn without an answer is retried
RetryAllowed(t) == t < 2

\* a plausible slip: the one-shot flag is not tested
KnowledgeCheckEveryTime(st, analysis, d) ==
    analysis.bio_hint \/ Contains(Lower(d.major), "biology")

\* line 119: the condition of the knowledge-check override
KnowledgeCheckDue(st, analysis, d) ==
    ~st.darwin_check_used
        /\ (analysis.bio_hint \/ Contains(Lower(d.major), "biology"))

\* line 86: update_status("Listening...") returned
UpdateStatusListening ==
    /\ pc = "status_listening"
    /\ io' = Append(io, <<"status", "Listening...">>)
    /\ pc' = "listen"
    /\ UNCHANGED <<frame, turn, decision, history, transcript, istate, scorer,
                   ap_tracker, data, report, input, probe>>

\* lines 95-101: listen_async returned user_text (None: nothing was heard)
Listen(user_text) ==
    /\ pc = "listen"
    /\ io' = Append(io, <<"listen", user_text>>)
    /\ pc' = "status_processing"
    /\ UNCHANGED <<frame, turn, decision, history, transcript, istate, scorer,
                   ap_tracker, data, report, input, probe>>

\* lines 101-111: update_status("Processing...") returned
UpdateStatusProcessing ==
    /\ pc = "status_processing"
    /\ io' = Append(io, <<"status", "Processing...">>)
    /\ IF CurrentAnswer = None \/ CurrentAnswer = ""
       THEN IF RetryAllowed(turn)
            THEN \* line 105: the clarification prompt
                 /\ frame' = SpeakAndLog(ClarifyPrompt, 105)
                 /\ pc' = "display_officer"
                 /\ UNCHANGED decision
            ELSE \* lines 108-109: denial, break
                 /\ decision' = <<"DENIED", NoAnswerReason>>
                 /\ pc' = "save"
                 /\ UNCHANGED frame
       ELSE /\ pc' = "display_applicant"
            /\ UNCHANGED <<frame, decision>>
    /\ UNCHANGED <<turn, history, transcript, istate, scorer, ap_tracker, data,
                   report, input, probe>>

\* lines 111-133: display_applicant returned; up to the call of reply_async
DisplayApplicant ==
    /\ pc = "display_applicant"
    /\ LET user_text == CurrentAnswer
           analysis == Analysis(user_text)
           override == KnowledgeCheckDue(istate, analysis, data)
           target_cat == IF override THEN "academics" ELSE next_target_category(istate)
       IN  /\ io' = Append(io, <<"display_applicant", user_text>>)
           /\ transcript' = Append(transcript, "APPLICANT: " \o user_text)
           /\ istate' = IF override THEN [istate EXCEPT !.darwin_check_used = TRUE]
                        ELSE istate
           /\ history' = history \o
                  <<Msg("user", user_text),
                    Msg("assistant",
                        analysis_injection(turn, user_text, analysis, target_cat))>>
    /\ pc' = "llm"
    /\ UNCHANGED <<frame, turn, decision, scorer, ap_tracker, data, report, input, probe>>

\* lines 133-154: reply_async returned ai_text (None: no reply)
LlmReply(ai_text) ==
    /\ pc = "llm"
    /\ io' = Append(io, <<"llm", ai_text>>)
    /\ history' = StripAnalysis(history)
    /\ IF ai_text = None \/ ai_text = ""
       THEN \* lines 138-139: the fallback question
            /\ frame' = SpeakAndLog(FallbackQuestion, 139)
            /\ pc' = "display_officer"
            /\ UNCHANGED <<turn, decision, istate, scorer>>
       ELSE \E r \in {parse_ai_with_ap(ai_text, CurrentAnswer, scorer)} :
            /\ scorer' = r.scorer
            /\ IF r.raised
               THEN \* scorer.update raised: the exception leaves run
                    /\ pc' = "crashed"
                    /\ UNCHANGED <<frame, turn, decision, istate>>
               ELSE IF r.done
               THEN \* line 146: _handle_decision
                    /\ decision' = r.decision
                    /\ frame' = SpeakAndLog(DecisionMessage(r.decision), 192)
                    /\ pc' = "display_officer"
                    /\ UNCHANGED <<turn, istate>>
               ELSE IF r.q # None /\ r.q # ""
               THEN \* line 150: the question is uttered
                    /\ decision' = r.decision
                    /\ frame' = SpeakAndLog(r.q, 150)
                    /\ pc' = "display_officer"
                    /\ UNCHANGED <<turn, istate>>
               ELSE \* lines 153-154 without a question
                    /\ decision' = r.decision
                    /\ istate' = record([istate EXCEPT !.turn = @ + 1], "", None)
                    /\ NextIteration
                    /\ UNCHANGED frame
    /\ UNCHANGED <<transcript, ap_tracker, data, report, input, probe>>

\* lines 156-158: the loop ended without break
FinalDecision ==
    /\ pc = "final"
    /\ IF decision = NoDecision
       THEN \E d \in {_make_final_decision(scorer, ap_tracker)} :
            IF d = NoDecision
            THEN \* the AttributeError leaves run: no decision, nothing saved
                 /\ pc' = "crashed"
                 /\ UNCHANGED <<decision, frame>>
            ELSE /\ decision' = d
                 /\ frame' = SpeakAndLog(DecisionMessage(d), 192)
                 /\ pc' = "display_officer"
       ELSE /\ pc' = "save"
            /\ UNCHANGED <<decision, frame>>
    /\ UNCHANGED <<turn, history, transcript, istate, scorer, ap_tracker, data, io,
                   report, input, probe>>

\* line 160: _save_results
SaveResults ==
    /\ pc = "save"
    /\ report' = [score |-> score(scorer),
                  final_decision |-> [type |-> decision[1], reason |-> decision[2]],
                  transcript |-> transcript]
    /\ io' = Append(io, <<"save_outputs", "">>)
    /\ pc' = "done"
    /\ UNCHANGED <<frame, turn, decision, history, transcript, istate, scorer,
                   ap_tracker, data, input, probe>>

NextSession ==
    \/ \E ok \in {"ok", "failed"} : Initialize(ok)
    \/ \E ok \in {"ok", "failed"} : SttInitialize(ok)
    \/ \E major \in Majors : DsLoad(major)
    \/ SetCaseDetails
    \/ GetStyle
    \/ \E q \in OpeningQuestions : GetEmbassy(q)
    \/ DisplayOfficer
    \/ SpeakAsync
    \/ UpdateStatusListening
    \/ \E user_text \in SessionAnswers \cup {None} : Listen(user_text)
    \/ UpdateStatusProcessing
    \/ DisplayApplicant
    \/ \E ai_text \in ReplyTexts \cup {None} : LlmReply(ai_text)
    \/ FinalDecision
    \/ SaveResults

Spec == InitSession /\ [][NextSession]_vars

-----------------------------------------------------------------------------
(* Properties of Spec.  io is the record of every awaited call that has    *)
(* returned, in order, up to and including save_outputs; the listen and    *)
(* llm entries carry what the collaborator returned.                       *)

\* the results of the listen calls so far, in order
Heard ==
    LET at == SelectSeq(io, LAMBDA e : e[1] = "listen")
    IN  [k \in 1..Len(at) |-> at[k][2]]

\* how often text was spoken so far
Spoken(text) == Cardinality({i \in 1..Len(io) : io[i] = <<"speak", text>>})

\* the listen and llm calls of io
TurnCalls(events) == SelectSeq(events, LAMBDA e : e[1] \in {"listen", "llm"})

\* the loop of run has ended without break: every iteration was used up
LoopExhausted == pc = "final"

\* a is a prefix of b
IsPrefix(a, b) == Len(a) <= Len(b) /\ SubSeq(b, 1, Len(a)) = a

\* C1: when the turn loop ends without a terminal decision, the final
\* decision is ADMINISTRATIVE PROCESSING if the tracker's four counters sum
\* to at least 2, otherwise APPROVED if score() >= 70 and there are no fraud
\* flags and no contradictions, otherwise DENIED
C1_FinalDecisionRule ==
    [][(LoopExhausted /\ decision = NoDecision) =>
        /\ decision' # NoDecision
        /\ decision'[1] =
               IF ap_tracker.financial_triggers + ap_tracker.academic_triggers
                    + ap_tracker.consistency_triggers
                    + ap_tracker.credibility_triggers >= 2
               THEN "ADMINISTRATIVE PROCESSING"
               ELSE IF score(scorer) >= 70 /\ scorer.fraud_flags = <<>>
                       /\ scorer.contradictions = <<>>
               THEN "APPROVED"
               ELSE "DENIED"]_vars

\* C2: every run that gets past initialization leaves the turn loop with
\* exactly one decision: once run is past the loop and the final computation
\* there is a decision, and a decision once set is never replaced
C2_ExactlyOneDecision ==
    /\ [](pc \in {"save", "done", "crashed"} => decision # NoDecision)
    /\ [][decision # NoDecision => decision' = decision]_vars

\* the decision a reply's DECISION line states, and its announcement
StatedDecision(ai_text) ==
    CASE ai_text = ReplyDenied -> <<"DENIED", "weak ties">>
      [] ai_text = ReplyApproved -> <<"APPROVED", "credible plan">>
      [] OTHER -> NoDecision
Announced(ai_text) ==
    CASE ai_text = ReplyDenied -> "Decision: DENIED. weak ties"
      [] ai_text = ReplyApproved -> "Decision: APPROVED. credible plan"
      [] OTHER -> ""

\* C3: a reply with a DECISION line ends the session in that turn with
\* exactly the stated type and reason: all that follows the reply is the
\* announcement of the decision (displayed, then spoken) and the save, so
\* nothing is listened to or asked of the LLM afterwards and the score-based
\* final decision is not computed
C3_DecisionLineEndsSession ==
    \A i \in 1..Len(io) :
        (io[i][1] = "llm" /\ StatedDecision(io[i][2]) # NoDecision) =>
            /\ decision = StatedDecision(io[i][2])
            /\ IsPrefix(SubSeq(io, i + 1, Len(io)),
                        <<<<"display_officer", Announced(io[i][2])>>,
                          <<"speak", Announced(io[i][2])>>, <<"save_outputs", "">>>>)
            /\ pc = <<"display_officer", "speak", "save", "done">>[Len(io) - i + 1]
            /\ (pc \in {"display_officer", "speak"} => frame.text = Announced(io[i][2]))
            /\ (pc = "done" =>
                   /\ report.final_decision.type = StatedDecision(io[i][2])[1]
                   /\ report.final_decision.reason = StatedDecision(io[i][2])[2])

\* a DECISION reply arrived in a later turn, after points were scored, and
\* the session was saved with it
C3_Witness ==
    /\ pc = "done"
    /\ io[Len(io) - 3] = <<"llm", ReplyDenied>>
    /\ istate.turn >= 1
    /\ scorer.categories_scored # {}
    /\ decision = <<"DENIED", "weak ties">>

\* C4: the turn counter never exceeds max_turns, and once a decision is set
\* no further turn executes: no listen, no LLM call, no change of the scorer
\* or of the interview state
C4_TurnsBounded ==
    /\ [](istate.turn <= max_turns /\ istate.turn <= turn + 1 /\ turn < max_turns)
    /\ [](decision # NoDecision => pc \in {"display_officer", "speak", "save", "done"})
    /\ [][decision # NoDecision =>
             /\ TurnCalls(io') = TurnCalls(io)
             /\ UNCHANGED <<decision, scorer, istate, turn, history>>]_vars

\* a decision was set in the last turn the budget allows, and the session
\* was saved
C4_Witness ==
    /\ pc = "done"
    /\ decision # NoDecision
    /\ turn = max_turns - 1
    /\ istate.turn = max_turns - 1

\* C5: when the first three listen attempts return no answer, the session
\* is DENIED for unclear responses after exactly two clarification prompts,
\* without any LLM call or scorer update
C5_ThreeSilentTurns ==
    (Len(Heard) >= 3 /\ Heard[1] = None /\ Heard[2] = None /\ Heard[3] = None) =>
        /\ pc \in {"status_processing", "save", "done"}
        /\ (pc # "status_processing" =>
               decision = <<"DENIED", "Unable to provide clear responses during interview.">>)
        /\ Len(Heard) = 3
        /\ Spoken("I need you to answer the question clearly.") = 2
        /\ \A i \in 1..Len(io) : io[i][1] # "llm"
        /\ scorer = reset

\* three silent listen attempts, and the denial was saved
C5_Witness ==
    /\ pc = "done"
    /\ Heard = <<None, None, None>>
    /\ report.final_decision.type = "DENIED"

\* listen attempt k returned no answer and so did the two before it
ThirdSilent(k) == k >= 3 /\ Heard[k] = None /\ Heard[k - 1] = None /\ Heard[k - 2] = None

\* C6: a no-answer ends the session only when it is the third in a row;
\* any other no-answer gets the clarification prompt and a retry (counted
\* where the session awaits a transcription or has left the loop)
C6_DenialOnlyOnThirdSilent ==
    /\ decision = <<"DENIED", "Unable to provide clear responses during interview.">>
           => ThirdSilent(Len(Heard))
    /\ pc \in {"listen", "final", "save", "done"} =>
           Spoken("I need you to answer the question clearly.")
               = Cardinality({k \in 1..Len(Heard) : Heard[k] = None /\ ~ThirdSilent(k)})

\* entry m of the history is an internal analysis note
IsAnalysisNote(m) == StartsWith(m.content, "ANALYSIS (INTERNAL")

\* C14: whenever the session awaits a transcription, and when it has ended,
\* the history holds no internal analysis note: the note is in the history
\* only while the LLM call is awaited, and is removed when the call returns,
\* with or without a reply
C14_NoRetainedAnalysis ==
    /\ pc # "llm" => \A i \in 1..Len(history) : ~IsAnalysisNote(history[i])
    /\ pc = "llm" => /\ IsAnalysisNote(history[Len(history)])
                     /\ \A i \in 1..(Len(history) - 1) : ~IsAnalysisNote(history[i])

\* the LLM gave no reply in the first turn, the fallback question was asked
\* and the session awaits the next transcription
C14_Witness ==
    /\ pc = "listen"
    /\ turn = 1
    /\ io[Len(io) - 3] = <<"llm", None>>
    /\ Len(history) = 3
    /\ history[2].role = "user"
    /\ history[3].content = "QUESTION: " \o FallbackQuestion \o "\nSCORE: intent:0"

\* C15: on every path that ends a session with a decision, the decision's
\* reason is a non-empty string
C15_ReasonNonEmpty == decision # NoDecision => decision[2] # ""

\* C17: the type of a session's decision is always one of the three tags
\* APPROVED, DENIED, ADMINISTRATIVE PROCESSING
C17_DecisionTypeIsTag ==
    decision # NoDecision =>
        decision[1] \in {"APPROVED", "DENIED", "ADMINISTRATIVE_PROCESSING",
                         "ADMINISTRATIVE PROCESSING"}

\* how often line occurs in the transcript
Logged(line) == Cardinality({i \in 1..Len(transcript) : transcript[i] = line})

\* C16: no session terminates silently: when the results are about to be
\* saved or have been saved, the message "Decision: <type>. <reason>" of the
\* decision has been displayed, spoken and appended to the transcript
\* exactly once
C16_DecisionAnnounced ==
    (decision # NoDecision /\ pc \in {"save", "done"}) =>
        /\ Spoken("Decision: " \o decision[1] \o ". " \o decision[2]) = 1
        /\ Logged("OFFICER: Decision: " \o decision[1] \o ". " \o decision[2]) = 1
        /\ (pc = "done" =>
               Logged("OFFICER: Decision: " \o decision[1] \o ". " \o decision[2])
                   = Cardinality({i \in 1..Len(report.transcript) : report.transcript[i]
                         = "OFFICER: Decision: " \o decision[1] \o ". " \o decision[2]}))

\* C18: turns commit atomically: while an external call of the turn is still
\* awaited (the LLM call has not resolved) none of the turn's changes to the
\* history, the interview state or the scorer has been applied, and a turn
\* whose LLM call yields no reply leaves the interview state and the scorer
\* as they were
C18_AtomicTurnCommit ==
    /\ [][pc' = "llm" => UNCHANGED <<history, istate, scorer>>]_vars
    /\ [][(pc = "llm" /\ io'[Len(io) + 1] = <<"llm", None>>)
             => UNCHANGED <<istate, scorer>>]_vars

\* the texts handed to the speech synthesizer so far, in order
SpokenTexts ==
    LET at == SelectSeq(io, LAMBDA e : e[1] = "speak")
    IN  [k \in 1..Len(at) |-> "OFFICER: " \o at[k][2]]

\* C19: every officer utterance is handed to display_officer and then to the
\* speech synthesizer, one right after the other: once the display has
\* returned the session awaits the speak of the same text, nothing, and so
\* no listen call, comes between the two or before the speak has returned,
\* and the utterances spoken are the officer lines of the transcript
C19_DisplayThenSpeak ==
    /\ \A i \in 1..Len(io) :
           io[i][1] = "display_officer" =>
               IF i < Len(io) THEN io[i + 1] = <<"speak", io[i][2]>>
               ELSE pc = "speak" /\ frame.text = io[i][2]
    /\ \A i \in 1..Len(io) :
           io[i][1] = "speak" => i > 1 /\ io[i - 1] = <<"display_officer", io[i][2]>>
    /\ \A i \in 1..Len(io) :
           io[i][1] = "listen" =>
               /\ i > 3
               /\ io[i - 1] = <<"status", "Listening...">>
               /\ io[i - 2][1] \in {"speak", "llm"}
    /\ pc \in {"status_listening", "listen"} => io[Len(io)][1] # "display_officer"
    /\ SpokenTexts = SelectSeq(transcript, LAMBDA l : StartsWith(l, "OFFICER: "))

\* the opening question, a clarification prompt, the fallback question and
\* a generated question were all uttered, each before the next listen
C19_Witness ==
    /\ Len(Heard) = 3
    /\ Spoken("I need you to answer the question clearly.") = 1
    /\ Spoken("Let me ask you another question. What confirms you'll return home after studies?") = 1
    /\ Spoken("Who pays for your studies?") = 1
    /\ Len(SpokenTexts) = 4

\* C20: when the LLM call of an answered turn yields no reply, the session
\* utters the fixed fallback question (displayed, then spoken and logged),
\* sets no decision, leaves the scorer, the escalation counters and the
\* interview state unchanged, and goes on with the loop: the next listen,
\* while iterations remain
C20_NoReplyFallback ==
    /\ [][(pc = "llm" /\ io'[Len(io) + 1] = <<"llm", None>>) =>
             /\ decision = NoDecision
             /\ UNCHANGED <<decision, scorer, ap_tracker, istate, transcript>>
             /\ pc' = "display_officer"
             /\ frame'.text = "Let me ask you another question. What confirms you'll return home after studies?"]_vars
    /\ [][(pc = "display_officer" /\ io[Len(io)] = <<"llm", None>>) =>
             /\ UNCHANGED <<decision, scorer, ap_tracker, istate, transcript>>
             /\ io' = Append(io, <<"display_officer", "Let me ask you another question. What confirms you'll return home after studies?">>)
             /\ pc' = "speak"]_vars
    /\ [][(pc = "speak" /\ io[Len(io) - 1] = <<"llm", None>>) =>
             /\ decision = NoDecision
             /\ UNCHANGED <<decision, scorer, ap_tracker, istate>>
             /\ io' = Append(io, <<"speak", "Let me ask you another question. What confirms you'll return home after studies?">>)
             /\ transcript' = Append(transcript, "OFFICER: Let me ask you another question. What confirms you'll return home after studies?")
             /\ pc' = IF Len(Heard) < max_turns THEN "status_listening" ELSE "final"]_vars

\* after a scored turn, the LLM gave no reply, the fallback was uttered and
\* the session awaits the next transcription with the score state kept
C20_Witness ==
    /\ pc = "listen"
    /\ turn = 2
    /\ io[Len(io) - 3] = <<"llm", None>>
    /\ io[Len(io) - 1] = <<"speak", "Let me ask you another question. What confirms you'll return home after studies?">>
    /\ scorer.categories_scored # {}
    /\ decision = NoDecision

-----------------------------------------------------------------------------
(* SpecTarget: an InterviewState driven by any sequence of record calls    *)
(* with a category hint and of turn increments, with next_target_category  *)
(* read at any point.                                                      *)

MaxHints == 5        \* record(q, hint) is called at most this often
MaxTurnIndex == 5    \* istate.turn is incremented at most this often

TargetOrder == {"funds", "intent", "ties", "academics"}
TargetHints == TargetOrder \cup {"purpose"}
TargetQuestion == "Who pays?"

InitTarget ==
    /\ SessionFields
    /\ RunIdle
    /\ input = None
    /\ probe = [op |-> "init", out |-> None]

\* istate.record(q, hint)
TargetRecord(hint) ==
    /\ Len(istate.asked_categories) < MaxHints
    /\ istate' = record(istate, TargetQuestion, hint)
    /\ probe' = [op |-> "record", out |-> None]
    /\ UNCHANGED <<pc, frame, turn, decision, history, transcript, scorer, ap_tracker,
                   data, io, report, input>>

\* self.istate.turn += 1
TargetTurn ==
    /\ istate.turn < MaxTurnIndex
    /\ istate' = [istate EXCEPT !.turn = @ + 1]
    /\ probe' = [op |-> "turn", out |-> None]
    /\ UNCHANGED <<pc, frame, turn, decision, history, transcript, scorer, ap_tracker,
                   data, io, report, input>>

\* istate.next_target_category()
TargetNext ==
    /\ probe.op # "next"
    /\ probe' = [op |-> "next", out |-> next_target_category(istate)]
    /\ UNCHANGED <<pc, frame, turn, decision, history, transcript, istate, scorer,
                   ap_tracker, data, io, report, input>>

NextTarget ==
    \/ \E hint \in TargetHints : TargetRecord(hint)
    \/ TargetTurn
    \/ TargetNext

SpecTarget == InitTarget /\ [][NextTarget]_vars

\* how often category c occurs in the asked-category sequence
Asked(c) ==
    Cardinality({i \in 1..Len(istate.asked_categories) : istate.asked_categories[i] = c})

\* C11: next_target_category returns a category of the fixed set, and never
\* one that was asked strictly more often than another category of the set
C11_LeastAskedTarget ==
    probe.op = "next" =>
        /\ probe.out \in TargetOrder
        /\ \A c \in TargetOrder : Asked(c) >= Asked(probe.out)

\* every category of the set was asked, one of them twice, and the category
\* returned is one that was asked once
C11_Witness ==
    /\ probe.op = "next"
    /\ \A c \in TargetOrder : Asked(c) >= 1
    /\ \E c \in TargetOrder : Asked(c) = 2
    /\ Asked(probe.out) = 1
    /\ probe.out # "funds"

-----------------------------------------------------------------------------
(* SpecTracker: an AdministrativeProcessingTracker driven by any sequence  *)
(* of analyze_response calls, with _should_escalate_to_ap and              *)
(* get_ap_reason read at any point, and with the AnswerAnalysis of an      *)
(* answer text built at any point.                                         *)

MaxAnalyses == 3     \* analyze_response is called at most this often

\* the analysis dictionaries handed to analyze_response
ApAnalyses ==
    [specificity3 : {0, 3}, stress10 : {0, 8}, consistency_flags : {<<>>, <<"flag">>}]

InitTracker ==
    /\ SessionFields
    /\ RunIdle
    /\ input = None
    /\ probe = [op |-> "init", calls |-> 0, before |-> ApTrackerInit, text |-> None,
                out |-> None]

\* one call ap_tracker.analyze_response(user_text, analysis, turn)
TrackerAnalyze(user_text, analysis) ==
    /\ probe.calls < MaxAnalyses
    /\ \E r \in {analyze_response(ap_tracker, user_text, analysis, probe.calls)} :
           /\ ap_tracker' = r.tracker
           /\ probe' = [op |-> "analyze", calls |-> probe.calls + 1,
                        before |-> ap_tracker, text |-> user_text,
                        out |-> [triggers |-> r.triggers,
                                 total_triggers |-> r.total_triggers,
                                 should_escalate_ap |-> r.should_escalate_ap,
                                 ap_reason |-> r.ap_reason]]
    /\ UNCHANGED <<pc, frame, turn, decision, history, transcript, istate, scorer,
                   data, io, report, input>>

\* one call ap_tracker._should_escalate_to_ap()
TrackerEscalate ==
    /\ probe.op # "escalate"
    /\ probe' = [probe EXCEPT !.op = "escalate",
                              !.out = _should_escalate_to_ap(ap_tracker)]
    /\ UNCHANGED <<pc, frame, turn, decision, history, transcript, istate, scorer,
                   ap_tracker, data, io, report, input>>

\* one call ap_tracker.get_ap_reason()
TrackerReason ==
    /\ probe.op # "reason"
    /\ probe' = [probe EXCEPT !.op = "reason", !.out = get_ap_reason(ap_tracker)]
    /\ UNCHANGED <<pc, frame, turn, decision, history, transcript, istate, scorer,
                   ap_tracker, data, io, report, input>>

\* the answer texts an AnswerAnalysis is built for
ApUnsureAnswer == "I am not sure about it"
ApBrandAnswer == "maybelline is my favourite brand"
ApShortAnswer == "My uncle"
AnalysisTexts == ApTexts \cup {ApUnsureAnswer, ApBrandAnswer, ApShortAnswer}

\* AnswerAnalysis of these texts, computed once
AnalysisTextsTable == [text \in AnalysisTexts |-> AnswerAnalysis(text)]

\* analysis = AnswerAnalysis(user_text)
TrackerAnswerAnalysis(user_text) ==
    /\ probe.op # "analysis"
    /\ probe' = [probe EXCEPT !.op = "analysis", !.text = user_text,
                              !.out = AnalysisTextsTable[user_text]]
    /\ UNCHANGED <<pc, frame, turn, decision, history, transcript, istate, scorer,
                   ap_tracker, data, io, report, input>>

NextTracker ==
    \/ \E user_text \in ApTexts, analysis \in ApAnalyses :
           TrackerAnalyze(user_text, analysis)
    \/ TrackerEscalate
    \/ TrackerReason
    \/ \E user_text \in AnalysisTexts : TrackerAnswerAnalysis(user_text)

SpecTracker == InitTracker /\ [][NextTracker]_vars

\* the sum of the four escalation counters
CounterSum ==
    ap_tracker.financial_triggers + ap_tracker.academic_triggers
        + ap_tracker.consistency_triggers + ap_tracker.credibility_triggers

\* C12: for every combination of the four counters the escalation predicate
\* is true if and only if their sum is at least 2
C12_EscalationIffSumAtLeastTwo ==
    /\ probe.op = "escalate" => (probe.out <=> CounterSum >= 2)
    /\ probe.op = "analyze" => (probe.out.should_escalate_ap <=> CounterSum >= 2)

\* the predicate was read with the counters summing to exactly 2, over two
\* different counters
C12_Witness ==
    /\ probe.op = "escalate"
    /\ probe.out = TRUE
    /\ CounterSum = 2
    /\ ap_tracker.financial_triggers = 1
    /\ ap_tracker.credibility_triggers = 1

\* the text holds a hedging phrase of the fixed list
SaysHedge(text) ==
    \E p \in {"not sure", "don't know", "maybe", "probably", "i think",
              "my father will arrange", "we have enough", "sufficient funds"} :
        Contains(Lower(text), p)

\* the text holds a concrete financial term
NamesFinancialTerm(text) ==
    \E w \in {"salary", "savings", "bank", "amount", "figure"} :
        Contains(Lower(text), w)

\* C13: analyze_response increments the financial counter by exactly 1 if
\* the text holds a hedging phrase or none of the concrete financial terms,
\* and leaves it unchanged otherwise; on a fresh tracker the answer
\* "I don't know, maybe my father will help" leaves the counter at 1
C13_FinancialTrigger ==
    probe.op = "analyze" =>
        /\ ap_tracker.financial_triggers = probe.before.financial_triggers
               + (IF SaysHedge(probe.text) \/ ~NamesFinancialTerm(probe.text)
                  THEN 1 ELSE 0)
        /\ (probe.calls = 1 /\ probe.text = "I don't know, maybe my father will help")
               => ap_tracker.financial_triggers = 1

\* the hedged answer was analysed by a fresh tracker, and the counter is 1
C13_Witness ==
    /\ probe.op = "analyze"
    /\ probe.calls = 1
    /\ probe.text = "I don't know, maybe my father will help"
    /\ probe.before.financial_triggers = 0
    /\ ap_tracker.financial_triggers = 1

\* an answer naming a financial term without hedging left the counter alone
C13_WitnessUnchanged ==
    /\ probe.op = "analyze"
    /\ probe.calls = 2
    /\ probe.text = ApCalmAnswer
    /\ probe.before.financial_triggers = 1
    /\ ap_tracker.financial_triggers = 1

-----------------------------------------------------------------------------
(* Further properties of SpecScorer.                                       *)

\* C21: across update calls after a reset no field of the score state
\* shrinks: in every step other than a reset, points, max_possible and
\* evasiveness do not decrease, categories_scored only gains members, and
\* response_quality, contradictions, fraud_flags and every evidence list
\* only gain elements at the end
C21_ScoreStateGrows ==
    [][probe'.op = "reset" \/
       /\ BLeq(scorer.points, scorer'.points)
       /\ BLeq(scorer.max_possible, scorer'.max_possible)
       /\ scorer.evasiveness <= scorer'.evasiveness
       /\ scorer.categories_scored \subseteq scorer'.categories_scored
       /\ IsPrefix(scorer.response_quality, scorer'.response_quality)
       /\ IsPrefix(scorer.contradictions, scorer'.contradictions)
       /\ IsPrefix(scorer.fraud_flags, scorer'.fraud_flags)
       /\ \A k \in {"ties", "funds", "academics", "intent"} :
              IsPrefix(scorer.evidence[k], scorer'.evidence[k])]_vars

\* three updates were applied, with two pieces of evidence in one category
\* and with points, evasiveness and fraud flags all grown
C21_Witness ==
    /\ probe.calls = 3
    /\ Len(scorer.response_quality) = 3
    /\ Len(scorer.evidence["funds"]) = 2
    /\ scorer.evidence["funds"][1] # scorer.evidence["funds"][2]
    /\ scorer.evasiveness = 1
    /\ scorer.fraud_flags # <<>>
    /\ scorer.points # <<>>

-----------------------------------------------------------------------------
(* Further properties of SpecTracker.                                      *)

\* C22: each analyze_response call leaves each of the four counters
\* unchanged or one higher, returns as total_triggers the sum of the four
\* counters after the call, and as should_escalate_ap whether that sum is
\* at least 2
C22_CountersStepByOne ==
    probe.op = "analyze" =>
        /\ ap_tracker.financial_triggers - probe.before.financial_triggers \in {0, 1}
        /\ ap_tracker.academic_triggers - probe.before.academic_triggers \in {0, 1}
        /\ ap_tracker.consistency_triggers - probe.before.consistency_triggers \in {0, 1}
        /\ ap_tracker.credibility_triggers - probe.before.credibility_triggers \in {0, 1}
        /\ ap_tracker.ap_threshold = 2
        /\ probe.out.total_triggers = CounterSum
        /\ probe.out.should_escalate_ap = (CounterSum >= 2)

\* a second call fired several counters at once and left another unchanged,
\* on a tracker that already had counted
C22_Witness ==
    /\ probe.op = "analyze"
    /\ probe.calls = 2
    /\ probe.before.financial_triggers = 1
    /\ ap_tracker.financial_triggers = 1
    /\ ap_tracker.academic_triggers = probe.before.academic_triggers + 1
    /\ ap_tracker.consistency_triggers = probe.before.consistency_triggers + 1
    /\ probe.out.total_triggers >= 3
    /\ Len(probe.out.triggers) = 2

-----------------------------------------------------------------------------
(* Further properties of Spec.                                             *)

\* C23: on every answered turn whose LLM reply is usable and carries no
\* decision, analyze_response is applied to the answer: the financial counter
\* of the escalation tracker goes up by one when the answer is financially
\* uncertain, as analyze_response makes it
C23_TrackerFedEachTurn ==
    [][istate'.turn = istate.turn + 1 =>
          ap_tracker'.financial_triggers =
              ap_tracker.financial_triggers
                  + (IF _financial_uncertainty(CurrentAnswer) THEN 1 ELSE 0)]_vars

\* C24: the turn counter advances by exactly 1 on each answered turn whose
\* LLM reply is non-empty and has no DECISION line (when the reply's question
\* has been uttered, or when the reply returns without a question), and in
\* that step the question asked is appended, normalized, to the
\* recent-question buffer; in every other step the turn counter and the
\* buffer are unchanged
C24_TurnCounterFrame ==
    [][IF pc = "speak" /\ io[Len(io) - 1][1] = "llm"
          /\ io[Len(io) - 1][2] # None /\ decision = NoDecision
       THEN \* the question of a usable reply has been uttered
            /\ istate'.turn = istate.turn + 1
            /\ istate'.questions_history =
                   Append(istate.questions_history, _norm(io[Len(io)][2]))
       ELSE IF pc = "llm" /\ io'[Len(io')][2] # None /\ decision' = NoDecision
               /\ pc' # "display_officer"
       THEN \* a usable reply without a question
            /\ istate'.turn = istate.turn + 1
            /\ istate'.questions_history = istate.questions_history
       ELSE /\ istate'.turn = istate.turn
            /\ istate'.questions_history = istate.questions_history]_vars

\* two answered turns advanced the counter and filled the buffer, and one
\* turn without an answer did not
C24_Witness ==
    /\ pc = "final"
    /\ \E k \in 1..Len(Heard) : Heard[k] = None
    /\ istate.turn = 2
    /\ istate.questions_history =
           <<"who pays for your studies", "can you explain that in more detail">>

\* C25: whenever the turn loop exits without a decision, the turn counter
\* (InterviewState.turn) equals max_turns
C25_LoopExitAtMaxTurns ==
    (pc = "final" /\ decision = NoDecision) => istate.turn = max_turns

\* C26: a session makes at most max_turns listen calls: every iteration of
\* the loop, a clarification retry and a fallback retry included, uses up one
\* of the max_turns iterations and makes one listen call
C26_ListenCallsBounded ==
    /\ Len(Heard) <= max_turns
    /\ turn < max_turns
    /\ pc \in {"status_listening", "listen"} => Len(Heard) = turn
    /\ pc \in {"final", "crashed"} => (Len(Heard) = max_turns /\ turn = max_turns - 1)

\* all max_turns listen calls were made, one of them followed by the
\* clarification prompt and one by the fallback question, and the loop ended
C26_Witness ==
    /\ pc = "final"
    /\ Len(Heard) = max_turns
    /\ Spoken("I need you to answer the question clearly.") >= 1
    /\ Spoken("Let me ask you another question. What confirms you'll return home after studies?") >= 1

\* the analysis note awaiting the LLM suggests category c
Suggests(h, c) ==
    /\ h # <<>>
    /\ StartsWith(h[Len(h)].content, "ANALYSIS (INTERNAL")
    /\ Contains(h[Len(h)].content, "- Suggested Next Category: " \o c \o "\n")

\* C27: the knowledge-check override is one-shot: the flag darwin_check_used
\* is never reset once true, and the target category is forced to academics
\* exactly on the turn where the flag goes from false to true, so on at most
\* one turn of a session
C27_OverrideOneShot ==
    /\ [][istate.darwin_check_used => istate'.darwin_check_used]_vars
    /\ [][pc' = "llm" =>
             (Suggests(history', "academics")
                 <=> (~istate.darwin_check_used /\ istate'.darwin_check_used))]_vars

\* a biology applicant answers a second time: the override was used on the
\* first answer and the note of the second suggests funds
C27_Witness ==
    /\ pc = "llm"
    /\ data.major = "Biology"
    /\ istate.darwin_check_used
    /\ istate.turn = 1
    /\ Suggests(history, "funds")

\* C28: within a session the topic tracker is never given a category hint:
\* asked_categories and category_set stay empty, next_target_category
\* returns funds at every turn index, and the category suggested to the
\* question generator is funds except on the turn of the knowledge-check
\* override, where it is academics
C28_SuggestedCategoryFunds ==
    /\ [](/\ istate.asked_categories = <<>>
          /\ istate.category_set = {}
          /\ \A t \in 0..9 : next_target_category([istate EXCEPT !.turn = t]) = "funds")
    /\ [][pc' = "llm" =>
             IF ~istate.darwin_check_used /\ istate'.darwin_check_used
             THEN Suggests(history', "academics")
             ELSE Suggests(history', "funds")]_vars

\* after the override turn and two recorded questions, the note of the
\* third answered turn suggests funds
C28_Witness ==
    /\ pc = "llm"
    /\ istate.turn = 2
    /\ Len(istate.questions_history) = 2
    /\ istate.darwin_check_used
    /\ istate.asked_categories = <<>>
    /\ Suggests(history, "funds")
    /\ Contains(history[Len(history)].content, "- Turn: 3\n")

-----------------------------------------------------------------------------
(* Further properties of SpecTarget.                                       *)

\* the place of category c in the fixed order funds, intent, ties, academics
OrderPlace(c) ==
    CASE c = "funds" -> 1 [] c = "intent" -> 2 [] c = "ties" -> 3 [] c = "academics" -> 4

\* the categories recorded so far
AskedSet == {istate.asked_categories[i] : i \in 1..Len(istate.asked_categories)}

\* C29: with turn < 5 and fewer than 3 distinct categories recorded,
\* next_target_category returns the first category of the order funds,
\* intent, ties, academics that was not asked; in every other state it
\* returns the category of the set asked least often, the first in the order
\* among equals
C29_TargetCategoryRule ==
    probe.op = "next" =>
        /\ istate.category_set = AskedSet
        /\ probe.out \in TargetOrder
        /\ IF istate.turn < 5 /\ Cardinality(AskedSet) < 3
           THEN /\ probe.out \notin AskedSet
                /\ \A c \in TargetOrder :
                       OrderPlace(c) < OrderPlace(probe.out) => c \in AskedSet
           ELSE /\ \A c \in TargetOrder : Asked(c) >= Asked(probe.out)
                /\ \A c \in TargetOrder :
                       OrderPlace(c) < OrderPlace(probe.out) => Asked(c) > Asked(probe.out)

\* at turn 5, with funds asked twice and the other categories once, the
\* least asked categories are equal and intent, the first of them, is returned
C29_Witness ==
    /\ probe.op = "next"
    /\ istate.turn = 5
    /\ Asked("funds") = 2
    /\ Asked("intent") = 1 /\ Asked("ties") = 1 /\ Asked("academics") = 1
    /\ probe.out = "intent"

\* at turn 0, with funds and a category outside the set asked, intent is
\* returned as the first category not asked
C29_WitnessFirstUnasked ==
    /\ probe.op = "next"
    /\ istate.turn = 0
    /\ AskedSet = {"funds", "purpose"}
    /\ probe.out = "intent"

-----------------------------------------------------------------------------
(* SpecRecord: an InterviewState driven by a sequence of record calls long *)
(* enough to fill the recent-question buffer and evict from it. The first  *)
(* VariedCalls calls draw any question and hint, the later calls record    *)
(* one more question without a hint, as the session does.                  *)

MaxRecordCalls == 27   \* record(q, hint) is called at most this often
VariedCalls == 3       \* the calls that draw their question and hint

RecordCallQuestions == {"Who pays?", "What is your GPA?", ""}
RecordCallHints == {None, "funds", "purpose"}
LaterQuestion == "Why this university?"

InitRecord ==
    /\ SessionFields
    /\ RunIdle
    /\ input = None
    /\ probe = [op |-> "init", questions |-> <<>>, hints |-> <<>>]

\* istate.record(q, cat_hint)
RecordCall(q, cat_hint) ==
    /\ Len(probe.questions) < MaxRecordCalls
    /\ IF Len(probe.questions) < VariedCalls
       THEN q \in RecordCallQuestions
       ELSE q = LaterQuestion /\ cat_hint = None
    /\ istate' = record(istate, q, cat_hint)
    /\ probe' = [op |-> "record", questions |-> Append(probe.questions, q),
                 hints |-> Append(probe.hints, cat_hint)]
    /\ UNCHANGED <<pc, frame, turn, decision, history, transcript, scorer, ap_tracker,
                   data, io, report, input>>

SpecRecord ==
    InitRecord /\ [][\E q \in RecordCallQuestions \cup {LaterQuestion},
                        cat_hint \in RecordCallHints : RecordCall(q, cat_hint)]_vars

IsAsked(q) == q # ""
IsHint(h) == h # None

\* the non-empty questions recorded so far, as asked, in recording order
RecordedQuestions == SelectSeq(probe.questions, IsAsked)

\* the hints given so far, in recording order
RecordedHints == SelectSeq(probe.hints, IsHint)

\* _norm of every question the calls record
NormOfRecorded == [q \in RecordCallQuestions \cup {LaterQuestion} |-> _norm(q)]

\* C30: after any sequence of record calls the buffer holds at most 25
\* entries: the normalized texts of the most recent (up to 25) non-empty
\* questions, in recording order; asked_categories is the sequence of the
\* hints that were present and category_set is the set of them, so a call
\* without a hint changes neither
C30_BufferHoldsRecentQuestions ==
    LET n == Len(RecordedQuestions)
        k == IF n > 25 THEN 25 ELSE n
    IN  /\ Len(istate.questions_history) = k
        /\ \A i \in 1..k :
               istate.questions_history[i] = NormOfRecorded[RecordedQuestions[n - k + i]]
        /\ istate.asked_categories = RecordedHints
        /\ istate.category_set = {RecordedHints[i] : i \in 1..Len(RecordedHints)}

\* 26 non-empty questions were recorded, the second call had an empty
\* question and the first no hint: the first question has been evicted, the
\* buffer is full and starts with the third call's text, and the two hints
\* given are kept in order
C30_Witness ==
    /\ Len(RecordedQuestions) = 26
    /\ probe.questions[1] = "Who pays?"
    /\ probe.questions[2] = ""
    /\ probe.hints = <<None, "funds", "purpose">> \o [i \in 1..24 |-> None]
    /\ Len(istate.questions_history) = 25
    /\ istate.questions_history[1] = "what is your gpa"
    /\ istate.questions_history[25] = "why this university"
    /\ istate.asked_categories = <<"funds", "purpose">>
    /\ istate.category_set = {"funds", "purpose"}

-----------------------------------------------------------------------------
(* Further properties of SpecScorer: the update call as a function of the  *)
(* scorer it is applied to and of every input the specification draws.     *)

\* max(0, min(3, base_points))
Clamp3(base_points) == IF base_points < 0 THEN 0 ELSE IF base_points > 3 THEN 3 ELSE base_points

\* the text matches the keywords of cat, or cat is funds and the text has a digit
TextMatches(cat, text) == cat \in TextFacts(text).matched

\* C31: an update call with a non-empty text adds 3 x weight(category) to
\* max_possible whether or not the text matches, and adds
\* clamp(rawPoints, 0, 3) x weight(category) to points if the text matches
\* and nothing otherwise; an update with an empty text changes no field
C31_UpdateAccounting ==
    (probe.op # "score" /\ probe.calls < MaxUpdates) =>
        \A cat \in ScorerCats, base_points \in ScorerPoints, text \in ScorerTexts :
            \E after \in {update(scorer, cat, base_points, text)} :
                IF text = ""
                THEN after = scorer
                ELSE /\ after.max_possible
                            = FAddPos(scorer.max_possible, Weighted(3, cat))
                     /\ after.points
                            = IF TextMatches(cat, text)
                              THEN FAddPos(scorer.points,
                                           Weighted(Clamp3(base_points), cat))
                              ELSE scorer.points

\* two updates of non-empty texts, one matched and one not: points, raised
\* once, lies strictly between zero and max_possible, raised twice
C31_Witness ==
    /\ probe.op = "update"
    /\ probe.calls = 2
    /\ probe.matched = 1
    /\ Len(scorer.response_quality) = 2
    /\ scorer.points # <<>>
    /\ scorer.points # scorer.max_possible
    /\ BLeq(scorer.points, scorer.max_possible)

\* C32: an update call with a non-empty text that matches the keywords of
\* its category (ties, funds, academics, intent or purpose) completes
\* normally, and so does an update with an unknown category
C32_KeywordUpdateCompletes == probe.op = "update" => ~probe.raised

\* base, line 225: 100.0 * (points / max_possible)
BasePercent(sc) == FMulInt(100, FDiv(sc.points, sc.max_possible))

\* C33: in every scorer state 0 <= points <= max_possible (a float of the
\* model is a natural number of units, so 0 <= points by construction: every
\* amount added is max(0, ...) * weight), and the base percentage that
\* score() computes is at most 100 whenever max_possible > 0
C33_PointsWithinMax ==
    /\ BLeq(<<>>, scorer.points)
    /\ BLeq(scorer.points, scorer.max_possible)
    /\ (probe.op = "score" /\ scorer.max_possible # <<>>)
           => BLeq(BasePercent(scorer), FromInt(100))

\* three updates, every one matched and given at least 3 raw points (the 5
\* is capped): points has reached max_possible and the base percentage is 100
C33_Witness ==
    /\ probe.op = "update"
    /\ probe.calls = 3
    /\ probe.matched = 3
    /\ scorer.points = scorer.max_possible
    /\ scorer.categories_scored = {"ties", "funds", "academics"}
    /\ BasePercent(scorer) = FromInt(100)

\* C34: after any sequence of update calls the contradictions list is empty
\* and every recorded claim value is "mentioned"; so the penalty of score()
\* has no contradiction part and no computed decision gives the reason
\* "inconsistent information"
C34_NoContradictions ==
    /\ scorer.contradictions = <<>>
    /\ \A key \in DOMAIN scorer.claims : scorer.claims[key] = "mentioned"
    /\ Penalty(scorer) = scorer.evasiveness * 3
                             + Cardinality(EvidenceKeys \ scorer.categories_scored) * 8
    /\ \A d \in {_make_final_decision(scorer, ap_tracker)} :
           d # NoDecision => ~Contains(d[2], "inconsistent information")
    /\ probe.op = "score" =>
           ~Contains(DecisionByScore(scorer, probe.out)[2], "inconsistent information")

\* the sponsor and major claims were each set by two updates (the text with
\* "father" and "visit", which contains "it", was processed twice, leaving two
\* fraud flags) and no contradiction was recorded
C34_Witness ==
    /\ probe.op = "update"
    /\ probe.calls = 2
    /\ Len(scorer.fraud_flags) = 2
    /\ DOMAIN scorer.claims = {"sponsor", "major"}
    /\ scorer.claims["sponsor"] = "mentioned"
    /\ scorer.contradictions = <<>>

\* the penalty with the never-covered categories counted among the five
\* categories that have a keyword list
PenaltyOverKeywordCats(sc) ==
    sc.evasiveness * 3 + Len(sc.contradictions) * 8
        + Cardinality(KeywordCats \ sc.categories_scored) * 8

\* sum(response_quality) / max(1, len(response_quality)), as a float
MeanQuality(sc) ==
    FDiv(BMulSmall(Pow2(FracBits - 2), SumSeq(sc.response_quality)),
         FromInt(Max(1, Len(sc.response_quality))))

\* C35: when max_possible > 0, score() is
\* round(base - penalty + 2 x (meanQuality - 5)) clamped to [0, 100], with
\* penalty = 3 x evasiveness + 8 x contradictions + 8 x the number of the
\* five keyword categories (ties, funds, academics, intent, purpose) never
\* covered
C35_ScoreFormulaFiveCategories ==
    (probe.op = "score" /\ scorer.max_possible # <<>>) =>
        LET quality == FAdd(Signed(FALSE, MeanQuality(scorer)), Signed(TRUE, FromInt(5)))
            final == FAdd(FAdd(Signed(FALSE, BasePercent(scorer)),
                               Signed(TRUE, FromInt(PenaltyOverKeywordCats(scorer)))),
                          Signed(quality.neg, BMulSmall(quality.mag, 2)))
        IN  probe.out = Max(0, Min(100, RoundFloat(final)))

-----------------------------------------------------------------------------
(* Further properties of SpecScorer: the decision of lines 202-214 of     *)
(* logic/session.py, taken from the scorer and the value of score().       *)

\* C36: in every reachable scorer state, whenever the decision computed from
\* the scorer and its score() is DENIED, the reason has at least one of the
\* specific reasons (inconsistent information, credibility concerns,
\* insufficient ties demonstration) and the generic default "insufficient
\* evidence of non-immigrant intent" is not used
C36_DenialNamesSpecificReason ==
    probe.op = "score" =>
        \A d \in {DecisionByScore(scorer, probe.out)} :
            d[1] = "DENIED" =>
                /\ \/ Contains(d[2], "inconsistent information")
                   \/ Contains(d[2], "credibility concerns")
                   \/ Contains(d[2], "insufficient ties demonstration")
                /\ ~Contains(d[2], "insufficient evidence of non-immigrant intent")

\* score() returned at least 70 for a scorer with a fraud flag: the decision is
\* DENIED for the flag alone
C36_Witness ==
    /\ probe.op = "score"
    /\ probe.out >= 70
    /\ scorer.fraud_flags # <<>>
    /\ DecisionByScore(scorer, probe.out)
           = <<"DENIED", "credibility concerns under INA 214(b).">>

-----------------------------------------------------------------------------
(* Further properties of Spec: the update made for a reply.                *)

\* the category and points of the reply's SCORE line where the line can be
\* parsed, the default (intent, 1) where there is no such line or where it
\* cannot be parsed
StatedScore(ai_text) ==
    CASE ai_text = ReplyQuestion -> [cat |-> "funds", pts |-> 3]
      [] ai_text = ReplyAlias -> [cat |-> "ties", pts |-> 3]
      [] ai_text = ReplyNoQuestion -> [cat |-> "academics", pts |-> 3]
      [] ai_text = ReplyApproved -> [cat |-> "intent", pts |-> 2]
      [] OTHER -> [cat |-> "intent", pts |-> 1]

\* C37: for a non-empty reply parse_ai_with_ap applies exactly one
\* scorer.update, for the answer of the turn, with the category and points
\* of the SCORE line, or with the default (intent, 1) when the reply has no
\* SCORE line or an unparseable one, also when the reply carries a DECISION
\* line; for no reply the scorer is left alone
C37_OneUpdatePerReply ==
    [][pc = "llm" =>
           \E ai_text \in {io'[Len(io) + 1][2]} :
               scorer' = IF ai_text = None THEN scorer
                         ELSE update(scorer, StatedScore(ai_text).cat,
                                     StatedScore(ai_text).pts, CurrentAnswer)]_vars

-----------------------------------------------------------------------------
(* Further properties of SpecTracker: the escalation reason.               *)

\* the four counters in their fixed order, each with the text that names it
ReasonParts ==
    <<[count |-> ap_tracker.financial_triggers, text |-> "financial verification"],
      [count |-> ap_tracker.academic_triggers, text |-> "academic background review"],
      [count |-> ap_tracker.consistency_triggers, text |-> "information consistency check"],
      [count |-> ap_tracker.credibility_triggers,
       text |-> "applicant credibility assessment"]>>

ReachedTwo(part) == part.count >= 2

\* C38: the escalation reason is the " & "-joined list, in the fixed order
\* financial, academic, consistency, credibility, of exactly the categories
\* whose counter is at least 2; when no counter has reached 2, also when the
\* counters sum to 2 or more, it is "standard administrative review"
C38_ReasonNamesCountersAtTwo ==
    probe.op = "reason" =>
        LET named == SelectSeq(ReasonParts, ReachedTwo)
        IN  /\ probe.out # ""
            /\ probe.out = IF named = <<>> THEN "standard administrative review"
                           ELSE Join(" & ", [i \in 1..Len(named) |-> named[i].text])

\* the reason was read with the financial and the credibility counter at 2
\* and the other two below
C38_Witness ==
    /\ probe.op = "reason"
    /\ ap_tracker.financial_triggers = 2
    /\ ap_tracker.credibility_triggers = 2
    /\ ap_tracker.academic_triggers < 2
    /\ ap_tracker.consistency_triggers < 2
    /\ probe.out = "financial verification & applicant credibility assessment"

\* the reason was read with escalation due and no counter at 2
C38_WitnessDefault ==
    /\ probe.op = "reason"
    /\ CounterSum >= 2
    /\ \A i \in 1..4 : ReasonParts[i].count < 2
    /\ probe.out = "standard administrative review"

-----------------------------------------------------------------------------
(* Further properties of SpecTracker: the vagueness flag of an analysis.   *)

\* a phrase of the fixed uncertainty list occurs in the lower-cased text
SaysUncertainty(text) ==
    \E p \in {"maybe", "not sure", "i think", "probably", "perhaps", "i guess",
              "don't know"} :
        Contains(Lower(text), p)

\* C39: the vagueness flag of an analysis is true if and only if the text
\* has fewer than 4 tokens or a phrase of the uncertainty list, the
\* multi-word phrases included, occurs as a substring of the lower-cased text
C39_VagueIffShortOrUncertain ==
    probe.op = "analysis" =>
        (probe.out.vague <=> (probe.out.length < 4 \/ SaysUncertainty(probe.text)))

-----------------------------------------------------------------------------
(* SpecCache: an OptimizedLLMClient (core/llm.py) driven by any reply_async *)
(* calls, which may overlap: reply_async looks its key up under the lock,   *)
(* releases the lock, awaits the completion service (line 64) and takes     *)
(* the lock again to store the result.  The client is kept in probe:        *)
(* _cache is the dictionary as the sequence of its <<key, value>> items in  *)
(* insertion order, and flying holds the calls suspended at line 64, in     *)
(* the order they were made, each with its locals system_prompt, history    *)
(* and cache_key (None when the cache is off, the key not being             *)
(* computed).  A cache key, the md5 digest of the system prompt             *)
(* followed by the JSON text of the recent history, is kept as the pair of  *)
(* the two texts it digests.  probe also keeps the last step: its kind      *)
(* ("wait": a call reached the service, "reply": a call returned), the      *)
(* call's key, what it returned, and _cache before the step.                *)

llm_cache_size == 2       \* Config.llm_cache_size (100 by default), scaled down
max_history_length == 20  \* Config.max_history_length
MaxReplies == 4           \* reply_async is called at most this often
MaxInFlight == 2          \* at most this many calls wait for the service at once

CachePrompts == {"F1 officer", "B1 officer"}
CacheHistories ==
    {<<"u1">>, <<"u1", "a1", "u2">>, <<"u1", "a1", "u2", "a2">>,
     <<"x1", "a1", "u2", "a2">>}
\* what the completion service does: it raises, or it returns a response
\* (None: no choices) whose text the client strips
CacheOutcomes == {"error", None, "", "  ", " R1\n", "R2"}

InitCache ==
    /\ SessionFields
    /\ RunIdle
    /\ input \in [enable_llm_cache : BOOLEAN]
    /\ probe = [op |-> "init", calls |-> 0, _cache |-> <<>>, flying |-> <<>>,
                before |-> <<>>, key |-> None, served |-> FALSE, out |-> None]

\* a plausible slip: the oldest entry is dropped as soon as the bound is reached
StoreEvictAtBound(cache, cache_key, result) ==
    LET at == {i \in 1..Len(cache) : cache[i][1] = cache_key}
        set == IF at = {} THEN Append(cache, <<cache_key, result>>)
               ELSE [cache EXCEPT ![SetMin(at)] = <<cache_key, result>>]
    IN  IF Len(set) >= llm_cache_size THEN Tail(set) ELSE set

\* lines 78-81: self._cache[cache_key] = result (a key already held keeps
\* its place in the dictionary), then the oldest item goes when the
\* dictionary has grown beyond llm_cache_size
Store(cache, cache_key, result) ==
    LET at == {i \in 1..Len(cache) : cache[i][1] = cache_key}
        set == IF at = {} THEN Append(cache, <<cache_key, result>>)
               ELSE [cache EXCEPT ![SetMin(at)] = <<cache_key, result>>]
    IN  IF Len(set) > llm_cache_size THEN Tail(set) ELSE set

\* lines 30-64: reply_async(system_prompt, hist) is called and runs to its
\* return from the cache (line 40) or to the await of the completion
\* service (line 64); the key is that of _make_cache_key (lines 24-28)
ReplyAsync(system_prompt, hist) ==
    /\ probe.calls < MaxReplies
    /\ LET h == IF Len(hist) > max_history_length
                THEN SubSeq(hist, Len(hist) - max_history_length + 1, Len(hist))
                ELSE hist
           recent == IF Len(h) > 3 THEN SubSeq(h, Len(h) - 2, Len(h)) ELSE h
           cache_key == IF input.enable_llm_cache THEN <<system_prompt, recent>> ELSE None
           at == {i \in 1..Len(probe._cache) : probe._cache[i][1] = cache_key}
           call == [probe EXCEPT !.calls = @ + 1, !.before = probe._cache,
                                 !.key = cache_key]
       IN  IF input.enable_llm_cache /\ at # {}
           THEN probe' = [call EXCEPT !.op = "reply", !.served = FALSE,
                                      !.out = probe._cache[SetMin(at)][2]]
           ELSE /\ Len(probe.flying) < MaxInFlight
                /\ probe' = [call EXCEPT !.op = "wait", !.served = TRUE,
                                         !.out = None,
                                         !.flying = Append(@,
                                             [system_prompt |-> system_prompt,
                                              history |-> h,
                                              cache_key |-> cache_key])]
    /\ UNCHANGED <<pc, frame, turn, decision, history, transcript, istate, scorer,
                   ap_tracker, data, io, report, input>>

\* lines 64-86: the completion service answers the i-th of the calls that
\* wait for it, and that call runs to its return
CompletionsCreate(i, outcome) ==
    /\ i \in 1..Len(probe.flying)
    /\ LET cache_key == probe.flying[i].cache_key
           result == IF outcome \in {"error", None} THEN None ELSE Strip(outcome)
       IN  probe' = [probe EXCEPT
                        !.op = "reply", !.before = probe._cache,
                        !.key = cache_key, !.served = TRUE, !.out = result,
                        !.flying = SubSeq(@, 1, i - 1) \o SubSeq(@, i + 1, Len(@)),
                        !._cache =
                            IF result # None /\ result # "" /\ input.enable_llm_cache
                            THEN Store(@, cache_key, result)
                            ELSE @]
    /\ UNCHANGED <<pc, frame, turn, decision, history, transcript, istate, scorer,
                   ap_tracker, data, io, report, input>>

NextCache ==
    \/ \E system_prompt \in CachePrompts, hist \in CacheHistories :
           ReplyAsync(system_prompt, hist)
    \/ \E i \in 1..MaxInFlight, outcome \in CacheOutcomes : CompletionsCreate(i, outcome)

SpecCache == InitCache /\ [][NextCache]_vars

\* the items of cache that hold key k
Holding(cache, k) == {i \in 1..Len(cache) : cache[i][1] = k}

\* C40: with caching enabled, after every step of a reply_async call the
\* cache holds at most llm_cache_size entries, none of them empty or None
\* and no two under one key.  A call whose system prompt and last three
\* history entries are those of a stored entry returns the stored reply
\* without calling the completion service and leaves the cache alone; any
\* other call calls the service and, when the service has answered, stores
\* a non-empty result (in place when its key is held by then, as the newest
\* entry otherwise) and, when that exceeds the bound, evicts the
\* oldest-inserted entry
C40_CacheBoundedOldestEvicted ==
    input.enable_llm_cache =>
        /\ Len(probe._cache) <= llm_cache_size
        /\ \A i \in 1..Len(probe._cache) :
               /\ probe._cache[i][2] \notin {None, ""}
               /\ Holding(probe._cache, probe._cache[i][1]) = {i}
        /\ probe.op = "wait" =>
               /\ Holding(probe.before, probe.key) = {}
               /\ probe._cache = probe.before
        /\ (probe.op = "reply" /\ ~probe.served) =>
               /\ Holding(probe.before, probe.key) # {}
               /\ \A i \in Holding(probe.before, probe.key) :
                      probe.out = probe.before[i][2]
               /\ probe._cache = probe.before
        /\ (probe.op = "reply" /\ probe.served) =>
               LET held == Holding(probe.before, probe.key)
                   newest == Append(probe.before, <<probe.key, probe.out>>)
               IN  probe._cache =
                       IF probe.out \in {None, ""} THEN probe.before
                       ELSE IF held # {}
                       THEN [i \in 1..Len(probe.before) |->
                                IF i \in held THEN <<probe.key, probe.out>>
                                ELSE probe.before[i]]
                       ELSE IF Len(newest) > llm_cache_size THEN Tail(newest)
                       ELSE newest

\* a reply was stored in a full cache: the oldest entry was evicted, the
\* second-oldest is now the oldest and the new reply is the newest
C40_Witness ==
    /\ input.enable_llm_cache
    /\ probe.op = "reply"
    /\ probe.served
    /\ Len(probe.before) = llm_cache_size
    /\ Len(probe._cache) = llm_cache_size
    /\ probe._cache[1] = probe.before[2]
    /\ probe._cache[llm_cache_size] = <<probe.key, probe.out>>
    /\ Holding(probe._cache, probe.before[1][1]) = {}

=============================================================================
